---- MODULE Spec2Model ----
(***************************************************************************)
(* Verification model of the session/authorization core of mindchat-auth:  *)
(* the in-memory rate limiter (lib/security.ts), the request-shape check   *)
(* and the register / login / logout request handlers.                     *)
(***************************************************************************)
EXTENDS Integers, Sequences, FiniteSets, TLC

(***************************************************************************)
(* Bounds of the model                                                     *)
(***************************************************************************)
\* number of clock advances explored
MaxTicks == 2
\* calls for a key are explored until its count is maxAttempts + MaxOver
MaxOver == 2
\* number of keys the store holds at one time when callers of several
\* identifiers call the rate limiter directly
MaxEntries == 1
\* number of logout requests, and of clears in a row, explored on one cookie jar
MaxRepeats == 2
MaxConsumers == 2
MaxSubscriptions == 3

(***************************************************************************)
(* Rate limiter (lib/security.ts)                                          *)
(***************************************************************************)
RATE_LIMITS ==
  [ REGISTRATION   |-> [maxAttempts |-> 5,  windowMs |-> 60 * 60 * 1000],
    LOGIN          |-> [maxAttempts |-> 10, windowMs |-> 60 * 60 * 1000],
    PASSWORD_RESET |-> [maxAttempts |-> 3,  windowMs |-> 60 * 60 * 1000] ]

\* the operation types callers pass to the rate limiter; the logout handler
\* passes "LOGOUT"
RateLimitTypes == {"REGISTRATION", "LOGIN", "LOGOUT", "PASSWORD_RESET"}

Identifiers == {"ip1", "unknown"}

\* `${type}:${identifier}`: the type holds no colon, so the key determines
\* the pair
getRateLimitKey_identifierOnly(type, identifier) == <<"*", identifier>>
getRateLimitKey(type, identifier) == <<type, identifier>>

Keys == {getRateLimitKey(t, i) : t \in RateLimitTypes, i \in Identifiers}

\* the clock advances by a window at a time, so that a check can fall
\* before, exactly on and after an entry's resetTime
ClockStep == RATE_LIMITS["LOGIN"].windowMs
MaxNow == MaxTicks * ClockStep

VARIABLES
  now,            \* Date.now()
  rateLimitStore, \* Map<string, RateLimitEntry>: a function on the keys present
  checkResult,    \* the last call of checkRateLimit and what it returned
  attempts,       \* per key, the calls made in the window that is open now
  cur,            \* the request being handled and what its handler did so far
  guard,          \* the request a requireAuthState wrapper is handling
  handoff,        \* the last credentials submitted and what was made of them
  jar,            \* the client's session cookies and the last operation on them
  account,        \* one user's registration and the profile row written for it
  authStore       \* the client's auth-state store (module state of useAuthState)

vars == <<now, rateLimitStore, checkResult, attempts, cur, guard, handoff, jar,
          account,
         authStore>>

\* now > entry.resetTime, as checkRateLimit tests it
IsExpired_reversed(entry, t) == t < entry.resetTime
IsExpired(entry, t) == t > entry.resetTime

\* entry.count > limit.maxAttempts
IsLimited_firstOverOnly(count, maxAttempts) == count = maxAttempts + 1
IsLimited_offByOne(count, maxAttempts) == count >= maxAttempts
IsLimited(count, maxAttempts) == count > maxAttempts

\* Math.max(0, limit.maxAttempts - entry.count)
Remaining_unclamped(count, maxAttempts) == maxAttempts - count
Remaining(count, maxAttempts) ==
  IF maxAttempts - count > 0 THEN maxAttempts - count ELSE 0

\* the entry written for a first or expired key
NewEntry(type, t) ==
  [count |-> 1, resetTime |-> t + RATE_LIMITS[type].windowMs]

\* what a call leaves behind when reading a property of the undefined limit
\* raises a TypeError
CheckThrows(store) ==
  [store |-> store, thrown |-> TRUE, isLimited |-> FALSE,
   remainingAttempts |-> 0, resetTime |-> 0]

\* checkRateLimit(type, identifier) run on the store at time t: the store it
\* leaves and the value it returns, or thrown
checkRateLimit_slidingWindow(store, type, identifier, t) ==
  LET key      == getRateLimitKey(type, identifier)
      hasLimit == type \in DOMAIN RATE_LIMITS
      hasEntry == key \in DOMAIN store
  IN  IF (~hasEntry) \/ IsExpired(store[key], t)
      THEN IF ~hasLimit
           THEN CheckThrows(store)
           ELSE LET newEntry == NewEntry(type, t)
                IN  [store |-> (key :> newEntry) @@ store,
                     thrown |-> FALSE,
                     isLimited |-> FALSE,
                     remainingAttempts |-> RATE_LIMITS[type].maxAttempts - 1,
                     resetTime |-> newEntry.resetTime]
      ELSE LET count  == store[key].count + 1
               store2 == [store EXCEPT ![key] =
                           [count |-> count,
                            resetTime |-> t + RATE_LIMITS[type].windowMs]]
           IN  IF ~hasLimit
               THEN CheckThrows(store2)
               ELSE [store |-> store2,
                     thrown |-> FALSE,
                     isLimited |-> IsLimited(count, RATE_LIMITS[type].maxAttempts),
                     remainingAttempts |->
                       Remaining(count, RATE_LIMITS[type].maxAttempts),
                     resetTime |-> store2[key].resetTime]

checkRateLimit_lostUpdate(store, type, identifier, t) ==
  LET key      == getRateLimitKey(type, identifier)
      hasLimit == type \in DOMAIN RATE_LIMITS
      hasEntry == key \in DOMAIN store
  IN  IF (~hasEntry) \/ IsExpired(store[key], t)
      THEN IF ~hasLimit
           THEN CheckThrows(store)
           ELSE LET newEntry == NewEntry(type, t)
                IN  [store |-> (key :> newEntry) @@ store,
                     thrown |-> FALSE,
                     isLimited |-> FALSE,
                     remainingAttempts |-> RATE_LIMITS[type].maxAttempts - 1,
                     resetTime |-> newEntry.resetTime]
      ELSE LET count  == store[key].count + 1
               store2 == [store EXCEPT ![key].count = count]
           IN  IF ~hasLimit
               THEN CheckThrows(store2)
               ELSE [store |-> store,
                     thrown |-> FALSE,
                     isLimited |-> IsLimited(count, RATE_LIMITS[type].maxAttempts),
                     remainingAttempts |->
                       Remaining(count, RATE_LIMITS[type].maxAttempts),
                     resetTime |-> store2[key].resetTime]

checkRateLimit(store, type, identifier, t) ==
  LET key      == getRateLimitKey(type, identifier)
      hasLimit == type \in DOMAIN RATE_LIMITS
      hasEntry == key \in DOMAIN store
  IN  IF (~hasEntry) \/ IsExpired(store[key], t)
      THEN IF ~hasLimit
           THEN CheckThrows(store)
           ELSE LET newEntry == NewEntry(type, t)
                IN  [store |-> (key :> newEntry) @@ store,
                     thrown |-> FALSE,
                     isLimited |-> FALSE,
                     remainingAttempts |-> RATE_LIMITS[type].maxAttempts - 1,
                     resetTime |-> newEntry.resetTime]
      ELSE LET count  == store[key].count + 1
               store2 == [store EXCEPT ![key].count = count]
           IN  IF ~hasLimit
               THEN CheckThrows(store2)
               ELSE [store |-> store2,
                     thrown |-> FALSE,
                     isLimited |-> IsLimited(count, RATE_LIMITS[type].maxAttempts),
                     remainingAttempts |->
                       Remaining(count, RATE_LIMITS[type].maxAttempts),
                     resetTime |-> store2[key].resetTime]

\* the setInterval callback: delete every entry with now > entry.resetTime
SweepStore_inclusive(store, t) ==
  [k \in {j \in DOMAIN store : ~(t >= store[j].resetTime)} |-> store[k]]
SweepStore(store, t) ==
  [k \in {j \in DOMAIN store : ~(t > store[j].resetTime)} |-> store[k]]

(***************************************************************************)
(* Bookkeeping of the calls per window, kept beside the store              *)
(***************************************************************************)
NoWindow == [n |-> 0, end |-> 0, limited |-> 0]

\* the window of a key after a call at time t: a call made with no window
\* open, or after the open window's end, opens a new one
AttemptsAfterCall(att, type, identifier, t) ==
  LET key == getRateLimitKey(type, identifier) IN
  IF type \notin DOMAIN RATE_LIMITS THEN att
  ELSE IF att[key].n = 0 \/ t > att[key].end
       THEN [att EXCEPT ![key] = [n |-> 1, end |-> t + RATE_LIMITS[type].windowMs,
                                  limited |-> 0]]
       ELSE [att EXCEPT ![key].n = @ + 1]

\* the calls of the open window that returned isLimited = true
CountLimited(att, type, identifier, isLimited) ==
  LET key == getRateLimitKey(type, identifier) IN
  IF type \in DOMAIN RATE_LIMITS /\ isLimited
  THEN [att EXCEPT ![key].limited = @ + 1]
  ELSE att

\* windows that are over at time t hold no call
AttemptsAt(att, t) ==
  [k \in DOMAIN att |-> IF att[k].n > 0 /\ t > att[k].end THEN NoWindow ELSE att[k]]

\* the caller has used up the attempts of the window that is open
OverLimit(att, type, identifier) ==
  /\ type \in DOMAIN RATE_LIMITS
  /\ att[getRateLimitKey(type, identifier)].n >= RATE_LIMITS[type].maxAttempts

\* Math.ceil(a / b) for b > 0; Math.ceil of a value in (-1, 0) is -0, printed "0"
Ceil(a, b) == -((-a) \div b)

\* the headers of the 429 response of applyRateLimit, Date.now() read again at
\* time t; the numbers stand for their decimal strings
RateLimitHeaders(type, remainingAttempts, resetTime, t) ==
  [sent |-> TRUE,
   limit |-> RATE_LIMITS[type].maxAttempts,
   remaining |-> remainingAttempts,
   reset |-> resetTime,
   retryAfter |-> Ceil(resetTime - t, 1000)]

NoHeaders == [sent |-> FALSE, limit |-> 0, remaining |-> 0, reset |-> 0, retryAfter |-> 0]

NoCheck ==
  [called |-> FALSE, type |-> "LOGIN", identifier |-> "ip1", at |-> 0,
   hadEntry |-> FALSE, prevCount |-> 0, prevExpired |-> FALSE,
   count |-> 0, nth |-> 0, windowEnd |-> 0, limitedBefore |-> 0,
   othersKept |-> TRUE,
   thrown |-> FALSE, isLimited |-> FALSE, remainingAttempts |-> 0, resetTime |-> 0,
   headers |-> NoHeaders]

\* a call for (type, identifier) left every entry of another pair as it was
\* and added none
OthersKept(before, after, type, identifier) ==
  /\ \A k \in DOMAIN before :
       (k[1] # type \/ k[2] # identifier) =>
         k \in DOMAIN after /\ after[k] = before[k]
  /\ \A k \in DOMAIN after \ DOMAIN before : k[1] = type /\ k[2] = identifier

\* the record of one call of checkRateLimit
CheckRecord(store, att, type, identifier, t) ==
  LET key == getRateLimitKey(type, identifier)
      r   == checkRateLimit(store, type, identifier, t)
      had == key \in DOMAIN store
  IN  [called |-> TRUE, type |-> type, identifier |-> identifier, at |-> t,
       hadEntry |-> had,
       prevCount |-> IF had THEN store[key].count ELSE 0,
       prevExpired |-> had /\ t > store[key].resetTime,
       count |-> IF key \in DOMAIN r.store THEN r.store[key].count ELSE 0,
       nth |-> AttemptsAfterCall(att, type, identifier, t)[key].n,
       windowEnd |-> AttemptsAfterCall(att, type, identifier, t)[key].end,
       limitedBefore |-> AttemptsAfterCall(att, type, identifier, t)[key].limited,
       othersKept |-> OthersKept(store, r.store, type, identifier),
       thrown |-> r.thrown, isLimited |-> r.isLimited,
       remainingAttempts |-> r.remainingAttempts, resetTime |-> r.resetTime,
       headers |-> NoHeaders]

\* the guards that keep the explored counters and the store bounded
CountBelowCap(store, type, identifier, t) ==
  LET key == getRateLimitKey(type, identifier) IN
  (key \in DOMAIN store /\ type \in DOMAIN RATE_LIMITS) =>
     \/ store[key].count < RATE_LIMITS[type].maxAttempts + MaxOver
     \/ IsExpired(store[key], t)

WithinBounds(store, type, identifier, t) ==
  LET key == getRateLimitKey(type, identifier) IN
  /\ CountBelowCap(store, type, identifier, t)
  /\ key \notin DOMAIN store => Cardinality(DOMAIN store) < MaxEntries

(***************************************************************************)
(* Requests, as far as the handlers read them                              *)
(***************************************************************************)
Endpoints == {"register", "registerForm", "login", "logout"}

\* the rate limit type each handler passes to validateAndSecureRequest
RateLimitTypeOf(endpoint) ==
  CASE endpoint = "register"     -> "REGISTRATION"
    [] endpoint = "registerForm" -> "REGISTRATION"
    [] endpoint = "login"        -> "LOGIN"
    [] endpoint = "logout"       -> "LOGOUT"

FormType == "application/x-www-form-urlencoded"
JsonType == "application/json"

\* a header value is the sequence of its tokens; << >> is a header not sent
\* length of the User-Agent header, NoUserAgent when it is not sent
NoUserAgent == 0 - 1

Shape(contentLength, userAgent, contentType) ==
  [contentLength |-> contentLength, userAgent |-> userAgent,
   contentType |-> contentType]

\* the headers of a well-formed form post, and the ways to depart from it in
\* one header
RequestShapes ==
  { Shape("absent", 10, <<FormType>>),
    Shape("1048577", 10, <<FormType>>),
    Shape("abc", 10, <<FormType>>),
    Shape("absent", NoUserAgent, <<FormType>>),
    Shape("absent", 513, <<FormType>>),
    Shape("absent", 10, << >>),
    Shape("absent", 10, <<JsonType>>) }

Requests ==
  { [endpoint |-> e,
     contentLength |-> s.contentLength,
     userAgent |-> s.userAgent,
     contentType |-> s.contentType,
     xForwardedFor |-> <<"ip1", "10.0.0.1">>,
     xRealIp |-> "",
     cfConnectingIp |-> ""] : e \in Endpoints, s \in RequestShapes }

\* String.prototype.includes on a tokenised string
Includes(hay, needle) ==
  \E i \in 1..(Len(hay) - Len(needle) + 1) :
    SubSeq(hay, i, i + Len(needle) - 1) = needle

\* getClientIP
getClientIP(req) ==
  IF req.xForwardedFor # << >> THEN req.xForwardedFor[1]
  ELSE IF req.xRealIp # "" THEN req.xRealIp
  ELSE IF req.cfConnectingIp # "" THEN req.cfConnectingIp
  ELSE "unknown"

NaN == 0 - 1
\* parseInt(contentLength, 10) on the header values of the model
parseInt(s) ==
  CASE s = "1048577" -> 1048577
    [] OTHER -> NaN

MaxRequestSize == 1024 * 1024

\* validateRequestSize: no header is accepted; a comparison with NaN is false
validateRequestSize(req) ==
  IF req.contentLength = "absent" THEN TRUE
  ELSE LET size == parseInt(req.contentLength)
       IN  size # NaN /\ size <= MaxRequestSize

\* isValidUserAgent
isValidUserAgent(userAgent) ==
  IF userAgent = NoUserAgent \/ userAgent = 0 THEN FALSE
  ELSE userAgent >= 10 /\ userAgent <= 512

\* validateRequest: every route of the model is a POST route
validateRequest(req) ==
  IF ~validateRequestSize(req)
  THEN [isValid |-> FALSE, error |-> "Request size too large"]
  ELSE IF ~isValidUserAgent(req.userAgent)
  THEN [isValid |-> FALSE, error |-> "Invalid user agent"]
  ELSE IF ~Includes(req.contentType, <<FormType>>)
  THEN [isValid |-> FALSE, error |-> "Invalid content type"]
  ELSE [isValid |-> TRUE, error |-> ""]

\* what validateAndSecureRequest hands back: the steps it ran, the store it
\* left, and either a thrown error, a blocking response or valid
SecurityResult(calls, store, thrown, valid, status, message, remaining) ==
  [calls |-> calls, store |-> store, thrown |-> thrown, valid |-> valid,
   status |-> status, message |-> message, remainingAttempts |-> remaining]

\* applyRateLimit, after the steps `calls`
applyRateLimit_notCounted(calls, store, req, type, t) ==
  LET r == checkRateLimit(store, type, getClientIP(req), t)
      c == Append(calls, "checkRateLimit")
  IN  IF r.thrown
      THEN SecurityResult(c, store, TRUE, FALSE, 0, << >>, 0)
      ELSE IF r.isLimited
      THEN SecurityResult(c, store, FALSE, FALSE, 429,
             <<"Rate limit exceeded. Please try again later.">>,
             r.remainingAttempts)
      ELSE SecurityResult(c, store, FALSE, TRUE, 0, << >>, r.remainingAttempts)
applyRateLimit(calls, store, req, type, t) ==
  LET r == checkRateLimit(store, type, getClientIP(req), t)
      c == Append(calls, "checkRateLimit")
  IN  IF r.thrown
      THEN SecurityResult(c, r.store, TRUE, FALSE, 0, << >>, 0)
      ELSE IF r.isLimited
      THEN SecurityResult(c, r.store, FALSE, FALSE, 429,
             <<"Rate limit exceeded. Please try again later.">>,
             r.remainingAttempts)
      ELSE SecurityResult(c, r.store, FALSE, TRUE, 0, << >>, r.remainingAttempts)

\* validateAndSecureRequest with the rate limit taken before the shape check
validateAndSecureRequest_rateFirst(store, req, type, t) ==
  LET rl == applyRateLimit(<< >>, store, req, type, t)
      v  == validateRequest(req)
  IN  IF rl.thrown \/ ~rl.valid THEN rl
      ELSE IF ~v.isValid
      THEN SecurityResult(Append(rl.calls, "validateRequest"), rl.store,
             FALSE, FALSE, 400, <<v.error>>, 0)
      ELSE [rl EXCEPT !.calls = Append(rl.calls, "validateRequest")]

\* validateAndSecureRequest: the shape check, then the rate limit
validateAndSecureRequest(store, req, type, t) ==
  LET v == validateRequest(req) IN
  IF ~v.isValid
  THEN SecurityResult(<<"validateRequest">>, store, FALSE, FALSE, 400,
         <<v.error>>, 0)
  ELSE applyRateLimit(<<"validateRequest">>, store, req, type, t)

(***************************************************************************)
(* Bodies and their validation (lib/validation.ts)                         *)
(***************************************************************************)
\* a body: whether its stream can be read, its syntax, and its fields.
\* email: "absent" (no string), "valid" or "invalid" for the email schema;
\* password: "absent", "strong" (passes the password schema) or "weak"
\* (non-empty, fails it); confirmPassword: "absent", "match" or "mismatch"
Bodies ==
  { [readable |-> FALSE, syntax |-> "form", email |-> "valid",
     password |-> "strong", confirmPassword |-> "match"],
    [readable |-> TRUE, syntax |-> "json", email |-> "valid",
     password |-> "strong", confirmPassword |-> "match"],
    [readable |-> TRUE, syntax |-> "json", email |-> "valid",
     password |-> "weak", confirmPassword |-> "match"],
    [readable |-> TRUE, syntax |-> "form", email |-> "valid",
     password |-> "strong", confirmPassword |-> "match"],
    [readable |-> TRUE, syntax |-> "form", email |-> "valid",
     password |-> "strong", confirmPassword |-> "absent"],
    [readable |-> TRUE, syntax |-> "form", email |-> "valid",
     password |-> "strong", confirmPassword |-> "mismatch"],
    [readable |-> TRUE, syntax |-> "form", email |-> "valid",
     password |-> "weak", confirmPassword |-> "match"],
    [readable |-> TRUE, syntax |-> "form", email |-> "invalid",
     password |-> "strong", confirmPassword |-> "match"],
    [readable |-> TRUE, syntax |-> "form", email |-> "absent",
     password |-> "strong", confirmPassword |-> "absent"] }

NoBody ==
  [readable |-> FALSE, syntax |-> "none", email |-> "absent",
   password |-> "absent", confirmPassword |-> "absent"]

NoFields == [email |-> "absent", password |-> "absent", confirmPassword |-> "absent"]
FieldsOf(body) ==
  [email |-> body.email, password |-> body.password,
   confirmPassword |-> body.confirmPassword]

\* await request.json(): rejects on an unreadable stream and on text that is
\* not JSON
requestJson(body) ==
  IF body.readable /\ body.syntax = "json"
  THEN [ok |-> TRUE, fields |-> FieldsOf(body)]
  ELSE [ok |-> FALSE, fields |-> NoFields]

\* await request.formData(): rejects on an unreadable stream and on a content
\* type that is no form type; text that is no form yields none of the fields
requestFormData(req, body) ==
  IF body.readable /\ Includes(req.contentType, <<FormType>>)
  THEN [ok |-> TRUE,
        fields |-> IF body.syntax = "form" THEN FieldsOf(body) ELSE NoFields]
  ELSE [ok |-> FALSE, fields |-> NoFields]

\* validateFormData and validateJsonBody: both fields must be strings
validateFields(fields) ==
  fields.email # "absent" /\ fields.password # "absent"

\* registerSchema.safeParse(input).success: confirmPassword is a required
\* string that must equal the password
validateRegistrationInput(fields) ==
  /\ fields.email = "valid"
  /\ fields.password = "strong"
  /\ fields.confirmPassword = "match"

\* signInSchema.safeParse(input).success: any non-empty password
validateSignInInput(fields) ==
  /\ fields.email = "valid"
  /\ fields.password \in {"strong", "weak"}

(***************************************************************************)
(* The identity provider's answers                                         *)
(***************************************************************************)
InvalidCredentials == <<"Invalid", "login", "credentials">>
EmailNotConfirmed == <<"Email", "not", "confirmed">>

ErrorMessages ==
  { InvalidCredentials,
    EmailNotConfirmed,
    <<"AuthApiError", ":">> \o InvalidCredentials,
    EmailNotConfirmed \o <<";">> \o InvalidCredentials,
    <<"invalid", "login", "credentials">>,
    <<"Database", "connection", "failed">>,
    << >> }

\* rejects: the call throws; hasError with the error's message (<< >> when the
\* error carries none); user and session: the fields of data
ProviderResults ==
  { [rejects |-> TRUE, hasError |-> FALSE, message |-> << >>,
     user |-> FALSE, session |-> FALSE] }
  \cup { [rejects |-> FALSE, hasError |-> TRUE, message |-> m,
          user |-> FALSE, session |-> FALSE] : m \in ErrorMessages }
  \cup { [rejects |-> FALSE, hasError |-> FALSE, message |-> << >>,
          user |-> u, session |-> s] : u \in BOOLEAN, s \in BOOLEAN }

NoResult ==
  [rejects |-> FALSE, hasError |-> FALSE, message |-> << >>,
   user |-> FALSE, session |-> FALSE]

\* the answers of the profile insert
ProfileResults == {"ok", "error", "rejects"}

AccessToken == "access-token-123"
RefreshToken == "refresh-token-123"

(***************************************************************************)
(* What a handler does: its log entries, cookie operations and response    *)
(***************************************************************************)
LogEntry(code, message, withError) ==
  [code |-> code, message |-> message, error |-> withError]

CookieSet(name, value) == [op |-> "set", name |-> name, value |-> value]
CookieDelete(name) == [op |-> "delete", name |-> name, value |-> ""]

\* the two cookies.set calls of a session
SessionCookies == <<CookieSet("sb-access-token", AccessToken),
                    CookieSet("sb-refresh-token", RefreshToken)>>
\* the two cookies.delete calls of logout
ClearedCookies == <<CookieDelete("sb-access-token"),
                    CookieDelete("sb-refresh-token")>>

\* a running request: pc is "parse", "provider" or "profile" while the handler
\* waits for the body, the identity provider or the profile insert
NewRun(req) ==
  [pc |-> "start", req |-> req, body |-> NoBody, result |-> NoResult,
   profile |-> "none", counted |-> FALSE, overLimit |-> FALSE,
   remainingAttempts |-> 0,
   calls |-> << >>, logs |-> << >>, cookies |-> << >>,
   status |-> 0, message |-> << >>, redirect |-> ""]

NoRequest == [NewRun(CHOOSE r \in Requests : TRUE) EXCEPT !.pc = "idle"]

\* createErrorResponse(status, ..., message): the handler returns
Respond(run, status, message) ==
  [run EXCEPT !.pc = "done", !.status = status, !.message = message]

\* return redirect("/")
Redirect(run) ==
  [run EXCEPT !.pc = "done", !.status = 302, !.redirect = "/"]

Log(run, code, message, withError) ==
  [run EXCEPT !.logs = Append(@, LogEntry(code, message, withError))]

Called(run, step) == [run EXCEPT !.calls = Append(@, step)]

\* the catch-all of each handler
UnexpectedError(run) ==
  LET ep == run.req.endpoint IN
  Respond(
    Log(run, 5002,
        CASE ep = "login"  -> "Unexpected error during login"
          [] ep = "logout" -> "Unexpected error during logout"
          [] OTHER         -> "Unexpected error during registration",
        TRUE),
    500,
    IF ep = "logout"
    THEN <<"An unexpected error occurred during logout. Please try again.">>
    ELSE <<"An unexpected error occurred. Please try again.">>)

\* the message logged with code 3001 when the security check blocks
BlockedMessage(endpoint, status) ==
  CASE endpoint = "register" ->
         IF status = 429 THEN "Registration attempt blocked by rate limiter"
         ELSE "Registration attempt blocked by security check"
    [] endpoint = "registerForm" -> "Registration attempt blocked by rate limiter"
    [] endpoint = "login" -> "Login attempt blocked by rate limiter"
    [] endpoint = "logout" -> "Logout attempt blocked by rate limiter"

\* the security check logged but its response not returned
AfterSecurityCheck_clearsWhenBlocked(run, sec) ==
  LET r == [run EXCEPT !.calls = sec.calls,
                       !.remainingAttempts = sec.remainingAttempts]
  IN  IF sec.thrown THEN UnexpectedError(r)
      ELSE IF ~sec.valid
      THEN Respond(Log([r EXCEPT !.cookies =
                          IF run.req.endpoint = "logout"
                          THEN @ \o ClearedCookies ELSE @],
                       3001, BlockedMessage(run.req.endpoint, sec.status), FALSE),
                   sec.status, sec.message)
      ELSE [r EXCEPT !.pc = IF run.req.endpoint = "logout" THEN "provider"
                            ELSE "parse"]
AfterSecurityCheck_noEarlyExit(run, sec) ==
  LET r == [run EXCEPT !.calls = sec.calls,
                       !.remainingAttempts = sec.remainingAttempts]
  IN  IF sec.thrown THEN UnexpectedError(r)
      ELSE IF ~sec.valid
      THEN [Log(r, 3001, BlockedMessage(run.req.endpoint, sec.status), FALSE)
              EXCEPT !.pc = IF run.req.endpoint = "logout" THEN "provider"
                            ELSE "parse"]
      ELSE [r EXCEPT !.pc = IF run.req.endpoint = "logout" THEN "provider"
                            ELSE "parse"]
\* the handler up to its first wait: the security check and what follows it
AfterSecurityCheck(run, sec) ==
  LET r == [run EXCEPT !.calls = sec.calls,
                       !.remainingAttempts = sec.remainingAttempts]
  IN  IF sec.thrown THEN UnexpectedError(r)
      ELSE IF ~sec.valid
      THEN Respond(Log(r, 3001, BlockedMessage(run.req.endpoint, sec.status), FALSE),
                   sec.status, sec.message)
      ELSE [r EXCEPT !.pc = IF run.req.endpoint = "logout" THEN "provider"
                            ELSE "parse"]

(***************************************************************************)
(* Parsing and validating the body                                         *)
(***************************************************************************)
NoThrow == [thrown |-> FALSE, kind |-> "", message |-> ""]
Throw(kind, message) == [thrown |-> TRUE, kind |-> kind, message |-> message]

\* the try block of register (JSON body): request.json(), validateJsonBody,
\* validateRegistrationInput; the validators throw plain Errors
RegisterJsonTry(body) ==
  LET parsed == requestJson(body) IN
  IF ~parsed.ok THEN Throw("Error", "<body is not JSON>")
  ELSE IF ~validateFields(parsed.fields)
  THEN Throw("Error",
             "Invalid JSON body: Email and password must be provided as strings")
  ELSE IF ~validateRegistrationInput(parsed.fields)
  THEN Throw("Error", "Validation failed: <issues>")
  ELSE NoThrow

\* the catch block of register (JSON body)
RegisterJsonCatch(run, e) ==
  IF e.kind = "ZodError"
  THEN Respond(Log(run, 2001, "Registration input validation failed", TRUE),
               400, <<"Invalid credentials">>)
  ELSE IF e.kind = "Error"
  THEN Respond(Log(run, 2009, "Invalid form data received", TRUE),
               400, <<"Invalid JSON body: ", e.message>>)
  ELSE Respond(Log(run, 5002, "Unexpected validation error", TRUE),
               500, <<"An unexpected error occurred during validation.">>)

RegisterJsonParse(run, body) ==
  LET r == Called(Called([run EXCEPT !.body = body], "parseBody"), "validate")
      e == RegisterJsonTry(body)
  IN  IF e.thrown THEN RegisterJsonCatch(r, e)
      ELSE [r EXCEPT !.pc = "provider"]

\* register (form body): request.formData() outside the inner try blocks,
\* then validateFormData, then validateRegistrationInput
RegisterFormParse(run, body) ==
  LET r0     == Called([run EXCEPT !.body = body], "parseBody")
      parsed == requestFormData(run.req, body)
      r      == Called(r0, "validate")
  IN  IF ~parsed.ok THEN UnexpectedError(r0)
      ELSE IF ~validateFields(parsed.fields)
      THEN Respond(Log(r, 2009, "Invalid form data received", TRUE), 400,
             <<"Invalid form data: ",
               "Invalid form data: Email and password must be provided as strings">>)
      ELSE IF ~validateRegistrationInput(parsed.fields)
      THEN Respond(Log(r, 2001, "Registration input validation failed", TRUE),
             400, <<"Invalid registration data: ", "Validation failed: <issues>">>)
      ELSE [r EXCEPT !.pc = "provider"]

\* login with the body read outside the inner try
LoginParse_readOutsideTry(run, body) ==
  LET r0     == Called([run EXCEPT !.body = body], "parseBody")
      json   == Includes(run.req.contentType, <<JsonType>>)
      parsed == IF json THEN requestJson(body) ELSE requestFormData(run.req, body)
      r      == Called(r0, "validate")
  IN  IF ~parsed.ok THEN UnexpectedError(r0)
      ELSE IF ~validateFields(parsed.fields)
      THEN Respond(Log(r, 2009, "Invalid form data received", TRUE), 400,
             <<"Invalid form data: ", "<fields>">>)
      ELSE IF ~validateSignInInput(parsed.fields)
      THEN Respond(Log(r, 2002, "Login input validation failed", TRUE), 400,
             <<"Invalid login data: ", "Validation failed: <issues>">>)
      ELSE [r EXCEPT !.pc = "provider"]
\* login: the JSON branch when the content type names JSON, else the form
\* branch; then validateSignInInput
LoginParse(run, body) ==
  LET r0     == Called([run EXCEPT !.body = body], "parseBody")
      json   == Includes(run.req.contentType, <<JsonType>>)
      parsed == IF json THEN requestJson(body) ELSE requestFormData(run.req, body)
      r      == Called(r0, "validate")
  IN  IF ~parsed.ok
      THEN Respond(Log(r0, 2009, "Invalid form data received", TRUE), 400,
             <<"Invalid form data: ", "<body cannot be parsed>">>)
      ELSE IF ~validateFields(parsed.fields)
      THEN Respond(Log(r, 2009, "Invalid form data received", TRUE), 400,
             <<"Invalid form data: ",
               IF json
               THEN "Invalid JSON body: Email and password must be provided as strings"
               ELSE "Invalid form data: Email and password must be provided as strings">>)
      ELSE IF ~validateSignInInput(parsed.fields)
      THEN Respond(Log(r, 2002, "Login input validation failed", TRUE), 400,
             <<"Invalid login data: ", "Validation failed: <issues>">>)
      ELSE [r EXCEPT !.pc = "provider"]

(***************************************************************************)
(* The identity provider's answer, per handler                             *)
(***************************************************************************)
\* cookies.set twice, the success log and the redirect of register
RegisterSuccess_alwaysCookies(run, result) ==
  Redirect(Log([run EXCEPT !.cookies = @ \o SessionCookies],
               1001, "User registration successful", FALSE))
RegisterSuccess_oneCode(run, result) ==
  IF result.session
  THEN Redirect(Log([run EXCEPT !.cookies = @ \o SessionCookies],
                    1001, "User registration successful", FALSE))
  ELSE Redirect(Log(run, 1001, "User registration successful", FALSE))
RegisterSuccess(run, result) ==
  IF result.session
  THEN Redirect(Log([run EXCEPT !.cookies = @ \o SessionCookies],
                    1001, "User registration successful", FALSE))
  ELSE Redirect(Log(run, 1004,
                    "User registration successful, email verification required",
                    FALSE))

\* register after signUp: error, no user, else on to the profile insert (form
\* body) or to the cookies (JSON body)
RegisterAfterSignUp(run, result) ==
  LET r == Called([run EXCEPT !.result = result], "signUp") IN
  IF result.rejects THEN UnexpectedError(r)
  ELSE IF result.hasError
  THEN Respond(Log(r, 4001, "Supabase sign up failed", TRUE),
               500, <<"Could not sign up user.">>)
  ELSE IF ~result.user
  THEN Respond(Log(r, 4001, "Supabase returned no user data after signup", FALSE),
               500, <<"Could not sign up user.">>)
  ELSE IF run.req.endpoint = "registerForm"
  THEN [r EXCEPT !.pc = "profile"]
  ELSE RegisterSuccess(r, result)

\* register (form body) after the insert into profiles
RegisterAfterProfile(run, answer) ==
  LET r == Called([run EXCEPT !.profile = answer], "insertProfile") IN
  IF answer = "rejects" THEN UnexpectedError(r)
  ELSE IF answer = "error"
  THEN Respond(Log(r, 5001, "Failed to create user profile", TRUE),
               500, <<"Could not create user profile.">>)
  ELSE RegisterSuccess(r, run.result)

\* the bucket of a sign-in error, by message?.includes(...)
LoginErrorBucket_swapped(message) ==
  IF Includes(message, EmailNotConfirmed) THEN "unconfirmed"
  ELSE IF Includes(message, InvalidCredentials) THEN "credentials"
  ELSE "other"
LoginErrorBucket(message) ==
  IF Includes(message, InvalidCredentials) THEN "credentials"
  ELSE IF Includes(message, EmailNotConfirmed) THEN "unconfirmed"
  ELSE "other"

\* login: the response to a sign-in error
LoginError_echoesProvider(run, result) ==
  LET bucket == LoginErrorBucket(result.message) IN
  IF bucket = "credentials"
  THEN Respond(Log(run, 4005, "Login authentication failed", TRUE),
               401, <<"Invalid email or password.">>)
  ELSE IF bucket = "unconfirmed"
  THEN Respond(Log(run, 4004, "Login failed - email not confirmed", TRUE),
               401, <<"Please verify your email address before signing in.">>)
  ELSE Respond(Log(run, 4008, "Supabase authentication error", TRUE),
               500, result.message)
LoginError(run, result) ==
  LET bucket == LoginErrorBucket(result.message) IN
  IF bucket = "credentials"
  THEN Respond(Log(run, 4005, "Login authentication failed", TRUE),
               401, <<"Invalid email or password.">>)
  ELSE IF bucket = "unconfirmed"
  THEN Respond(Log(run, 4004, "Login failed - email not confirmed", TRUE),
               401, <<"Please verify your email address before signing in.">>)
  ELSE Respond(Log(run, 4008, "Supabase authentication error", TRUE),
               500, <<"Could not sign in user.">>)

\* login: a sign-in without error: no user, no session, or the cookies
LoginNoError_noUserCheck(run, result) ==
  IF ~result.session
  THEN Respond(Log(run, 4006, "Login successful but no session created", FALSE),
               500, <<"Could not create user session.">>)
  ELSE Redirect(Log([run EXCEPT !.cookies = @ \o SessionCookies],
                    1002, "User login successful", FALSE))
LoginNoError(run, result) ==
  IF ~result.user
  THEN Respond(Log(run, 4008, "Supabase returned no user data after sign in", FALSE),
               500, <<"Could not sign in user.">>)
  ELSE IF ~result.session
  THEN Respond(Log(run, 4006, "Login successful but no session created", FALSE),
               500, <<"Could not create user session.">>)
  ELSE Redirect(Log([run EXCEPT !.cookies = @ \o SessionCookies],
                    1002, "User login successful", FALSE))

LoginAfterSignIn(run, result) ==
  LET r == Called([run EXCEPT !.result = result], "signInWithPassword") IN
  IF result.rejects THEN UnexpectedError(r)
  ELSE IF result.hasError THEN LoginError(r, result)
  ELSE LoginNoError(r, result)

\* logout after signOut: a rejected call goes to the catch-all; otherwise
\* both cookies are deleted and a returned error is logged
LogoutAfterSignOut(run, result) ==
  LET r == Called([run EXCEPT !.result = result], "signOut") IN
  IF result.rejects THEN UnexpectedError(r)
  ELSE LET cleared == [r EXCEPT !.cookies = @ \o ClearedCookies] IN
       IF result.hasError
       THEN Redirect(
              Log(Log(cleared, 4008,
                      "Supabase logout failed, but cookies cleared locally", TRUE),
                  1003, "User logout successful (local session cleared)", FALSE))
       ELSE Redirect(Log(cleared, 1003, "User logout successful", FALSE))

(***************************************************************************)
(* getUserState and requireAuthState (lib/userState.ts)                    *)
(***************************************************************************)
UserStates == {"ANONYMOUS", "FREE_USER", "PREMIUM_USER", "LICENSE_USER"}

\* what supabase.auth.getSession() can answer: the call rejects; the answer
\* has no data object; data.session is null; the session has no user; the
\* session has a user
SessionResults ==
  { [kind |-> "rejects", session |-> FALSE, user |-> FALSE],
    [kind |-> "noData",  session |-> FALSE, user |-> FALSE],
    [kind |-> "data",    session |-> FALSE, user |-> FALSE],
    [kind |-> "data",    session |-> TRUE,  user |-> FALSE],
    [kind |-> "data",    session |-> TRUE,  user |-> TRUE] }

NoSessionResult == [kind |-> "none", session |-> FALSE, user |-> FALSE]

\* the role column of a profile row; NullRole is a row whose role is null or
\* undefined
NullRole == "<null>"
Roles == {"premium", "license", "free", "", "Premium", "admin", NullRole}

\* what the profiles query can answer: the call rejects; an answer without
\* data and error fields; an error; no row; a row
LookupResults ==
  { [kind |-> "rejects", error |-> FALSE, row |-> FALSE, role |-> NullRole],
    [kind |-> "noData",  error |-> FALSE, row |-> FALSE, role |-> NullRole],
    [kind |-> "data",    error |-> TRUE,  row |-> FALSE, role |-> NullRole],
    [kind |-> "data",    error |-> TRUE,  row |-> TRUE,  role |-> "premium"],
    [kind |-> "data",    error |-> FALSE, row |-> FALSE, role |-> NullRole] }
  \cup { [kind |-> "data", error |-> FALSE, row |-> TRUE, role |-> r] : r \in Roles }

NoLookupResult == [kind |-> "none", error |-> FALSE, row |-> FALSE, role |-> NullRole]

\* the responses a wrapped handler returns
HandlerResponses ==
  { [status |-> 200, error |-> "", message |-> "Success", headers |-> "handler"],
    [status |-> 500, error |-> "Internal Server Error", message |-> "handler failed",
     headers |-> "handler"] }

NoResponse == [status |-> 0, error |-> "", message |-> "", headers |-> ""]

\* createErrorResponse(statusCode, error, message): the body fields and the
\* security headers; the timestamp is left out
createErrorResponse(statusCode, error, message) ==
  [status |-> statusCode, error |-> error, message |-> message,
   headers |-> "security"]

\* a run of the function requireAuthState(allowedStates, handler) returns
NewGuard(allowedStates) ==
  [pc |-> "session", allowedStates |-> allowedStates,
   sessionResult |-> NoSessionResult, lookupResult |-> NoLookupResult,
   resolved |-> FALSE, state |-> "ANONYMOUS", user |-> FALSE, session |-> FALSE,
   thrown |-> FALSE, calls |-> << >>, logs |-> << >>,
   handlerCalls |-> 0, response |-> NoResponse]

NoGuard == [NewGuard({}) EXCEPT !.pc = "idle"]

\* an exception leaves getUserState and the wrapper uncaught
GuardThrows(g) == [g EXCEPT !.pc = "done", !.thrown = TRUE]

\* the switch on profile.role
StateOfRole_freeOnly(role) ==
  CASE role = "premium" -> "PREMIUM_USER"
    [] role = "license" -> "LICENSE_USER"
    [] role = "free"    -> "FREE_USER"
    [] OTHER            -> "ANONYMOUS"
StateOfRole(role) ==
  CASE role = "premium" -> "PREMIUM_USER"
    [] role = "license" -> "LICENSE_USER"
    [] OTHER            -> "FREE_USER"

\* the 403 of requireAuthState
Forbidden_byCause(g) ==
  IF ~g.user
  THEN createErrorResponse(403, "Forbidden: Access denied.", "NOT_AUTHENTICATED")
  ELSE createErrorResponse(403, "Forbidden: Access denied.", "INSUFFICIENT_PERMISSIONS")
Forbidden(g) ==
  createErrorResponse(403, "Forbidden: Access denied.", "INSUFFICIENT_PERMISSIONS")

\* requireAuthState once getUserState has returned {state, user, session}
Decide_byStateOnly(g, state, user, session) ==
  LET r == [g EXCEPT !.resolved = TRUE, !.state = state, !.user = user,
                     !.session = session]
  IN  IF state \notin g.allowedStates
      THEN [r EXCEPT !.pc = "done", !.response = Forbidden(r)]
      ELSE [r EXCEPT !.pc = "handler", !.handlerCalls = @ + 1]
Decide(g, state, user, session) ==
  LET r == [g EXCEPT !.resolved = TRUE, !.state = state, !.user = user,
                     !.session = session]
  IN  IF ~user \/ ~session \/ state \notin g.allowedStates
      THEN [r EXCEPT !.pc = "done", !.response = Forbidden(r)]
      ELSE [r EXCEPT !.pc = "handler", !.handlerCalls = @ + 1]

\* !session?.user
HasNoSessionUser_sessionOnly(res) == ~res.session
HasNoSessionUser(res) == ~(res.session /\ res.user)

\* getUserState up to the profiles query; user.id of a session without user
\* raises a TypeError
AfterGetSession(g, res) ==
  LET r == [g EXCEPT !.sessionResult = res, !.calls = Append(@, "getSession")] IN
  IF res.kind \in {"rejects", "noData"} THEN GuardThrows(r)
  ELSE IF HasNoSessionUser(res) THEN Decide(r, "ANONYMOUS", FALSE, FALSE)
  ELSE IF ~res.user THEN GuardThrows([r EXCEPT !.calls = Append(@, "profiles.select")])
  ELSE [r EXCEPT !.pc = "profile", !.calls = Append(@, "profiles.select")]

\* getUserState from the answer of the profiles query on
AfterLookup(g, res) ==
  LET r == [g EXCEPT !.lookupResult = res] IN
  IF res.kind = "rejects" THEN GuardThrows(r)
  ELSE IF res.error
  THEN Decide([r EXCEPT !.logs = Append(@,
                 LogEntry(4007, "Failed to fetch user profile for state check.", TRUE))],
              "ANONYMOUS", FALSE, FALSE)
  ELSE IF ~res.row
  THEN Decide([r EXCEPT !.logs = Append(@,
                 LogEntry(4002, "User profile not found during state check.", TRUE))],
              "ANONYMOUS", FALSE, FALSE)
  ELSE Decide(r, StateOfRole(res.role), TRUE, TRUE)

(***************************************************************************)
(* Credentials from the body to the provider (lib/validation.ts)           *)
(***************************************************************************)
\* a string is the sequence of its characters; an email is written with its
\* local part and its domain as one token each
Space == " "
\* a field that is no string: missing from the form, or not a JSON string
NoString == <<"<no string>">>

CorePassword == <<"A", "a", "1", "!", "a", "a", "a", "a">>

RawPasswords ==
  { CorePassword,
    <<Space>> \o CorePassword,
    CorePassword \o <<Space>>,
    <<"e", "COMBINING ACUTE">> \o CorePassword,
    <<"e-acute">> \o CorePassword,
    <<"A", "A", "1", "!", "A", "A", "A", "A">>,
    <<Space>>,
    << >>,
    NoString }

RawEmails ==
  { <<"user", "@", "example.com">>,
    <<"User", "@", "Example.COM">>,
    <<Space, "User", "@", "example.com", Space>>,
    <<"e", "COMBINING ACUTE", "@", "example.com">>,
    <<"user", "example.com">>,
    NoString }

\* the confirmPassword sent along: none, the password, or the password trimmed
ConfirmChoices == {"absent", "same", "trimmed"}

RECURSIVE TrimStart(_)
TrimStart(s) ==
  IF s # << >> /\ Head(s) = Space THEN TrimStart(Tail(s)) ELSE s

RECURSIVE TrimEnd(_)
TrimEnd(s) ==
  IF s # << >> /\ s[Len(s)] = Space THEN TrimEnd(SubSeq(s, 1, Len(s) - 1)) ELSE s

\* String.prototype.trim
trim(s) == TrimEnd(TrimStart(s))

\* String.prototype.normalize("NFC"): a letter and its combining mark compose
RECURSIVE normalize(_)
normalize(s) ==
  IF s = << >> THEN << >>
  ELSE IF Len(s) >= 2 /\ s[1] = "e" /\ s[2] = "COMBINING ACUTE"
  THEN <<"e-acute">> \o normalize(SubSeq(s, 3, Len(s)))
  ELSE <<s[1]>> \o normalize(Tail(s))

LowerOf(c) ==
  CASE c = "A"           -> "a"
    [] c = "User"        -> "user"
    [] c = "Example.COM" -> "example.com"
    [] OTHER             -> c

\* String.prototype.toLowerCase
toLowerCase(s) == [i \in 1..Len(s) |-> LowerOf(s[i])]

\* sanitizeInput: input.trim().normalize("NFC")
sanitizeInput(s) == normalize(trim(s))

ConfirmOf(password, choice) ==
  CASE choice = "same"    -> password
    [] choice = "trimmed" -> trim(password)
    [] OTHER              -> NoString

NoInput == [ok |-> FALSE, email |-> NoString, password |-> NoString,
            confirmPassword |-> NoString]

\* validateFormData: both fields must be strings; the email is sanitized, the
\* password is not; confirmPassword is kept when it is a non-empty string
validateFormData_sanitizesPassword(emailRaw, passwordRaw, confirmPasswordRaw) ==
  IF emailRaw = NoString \/ passwordRaw = NoString THEN NoInput
  ELSE [ok |-> TRUE, email |-> sanitizeInput(emailRaw),
        password |-> sanitizeInput(passwordRaw),
        confirmPassword |-> IF confirmPasswordRaw # << >> THEN confirmPasswordRaw
                            ELSE NoString]
validateFormData(emailRaw, passwordRaw, confirmPasswordRaw) ==
  IF emailRaw = NoString \/ passwordRaw = NoString THEN NoInput
  ELSE [ok |-> TRUE, email |-> sanitizeInput(emailRaw),
        password |-> passwordRaw,
        confirmPassword |-> IF confirmPasswordRaw # << >> THEN confirmPasswordRaw
                            ELSE NoString]

\* validateJsonBody: the same on the fields of the parsed body
validateJsonBody(email, password, confirmPassword) ==
  IF email = NoString \/ password = NoString THEN NoInput
  ELSE [ok |-> TRUE, email |-> sanitizeInput(email),
        password |-> password,
        confirmPassword |-> IF confirmPassword # << >> THEN confirmPassword
                            ELSE NoString]

LowerCaseLetters == {"a", "e"}
UpperCaseLetters == {"A"}
DigitChars == {"1"}
SpecialChars == {"!"}
MinPasswordLength == 8

HasCharOf(s, class) == \E i \in 1..Len(s) : s[i] \in class

\* passwordSchema: the length and the four character classes
passwordSchema(s) ==
  /\ Len(s) >= MinPasswordLength
  /\ HasCharOf(s, LowerCaseLetters)
  /\ HasCharOf(s, UpperCaseLetters)
  /\ HasCharOf(s, DigitChars)
  /\ HasCharOf(s, SpecialChars)

\* emailSchema: the format test, which takes letters of either case and ASCII
\* only; the strings of the model are far below the 254 characters allowed
emailFormat(s) ==
  /\ Len(s) = 3
  /\ s[1] \in {"user", "User"}
  /\ s[2] = "@"
  /\ s[3] \in {"example.com", "Example.COM"}

NoParse == [success |-> FALSE, email |-> NoString, password |-> NoString]

\* registerSchema.safeParse: email, password, a confirmPassword string, and
\* the two equal; the data carries the lowercased email
registerSchema(input) ==
  IF /\ emailFormat(input.email)
     /\ passwordSchema(input.password)
     /\ input.confirmPassword # NoString
     /\ input.password = input.confirmPassword
  THEN [success |-> TRUE, email |-> toLowerCase(input.email),
        password |-> input.password]
  ELSE NoParse

\* signInSchema.safeParse: email and a password of at least one character
signInSchema(input) ==
  IF emailFormat(input.email) /\ Len(input.password) >= 1
  THEN [success |-> TRUE, email |-> toLowerCase(input.email),
        password |-> input.password]
  ELSE NoParse

\* the endpoints and the body syntax each reads
Submissions ==
  { <<"register", "json">>, <<"registerForm", "form">>,
    <<"login", "json">>, <<"login", "form">> }

NoHandoff ==
  [called |-> FALSE, endpoint |-> "login", syntax |-> "form",
   rawEmail |-> NoString, rawPassword |-> NoString, rawConfirm |-> NoString,
   outcome |-> "none", email |-> NoString, password |-> NoString,
   logged |-> {}]

\* a handler from the fields of the body to the arguments of signUp or
\* signInWithPassword, with the values it puts into log contexts
Credentials(endpoint, syntax, emailRaw, passwordRaw, confirmRaw) ==
  LET input  == IF syntax = "json"
                THEN validateJsonBody(emailRaw, passwordRaw, confirmRaw)
                ELSE validateFormData(emailRaw, passwordRaw, confirmRaw)
      parsed == IF ~input.ok THEN NoParse
                ELSE IF endpoint = "login" THEN signInSchema(input)
                ELSE registerSchema(input)
  IN  [called |-> TRUE, endpoint |-> endpoint, syntax |-> syntax,
       rawEmail |-> emailRaw, rawPassword |-> passwordRaw, rawConfirm |-> confirmRaw,
       outcome |-> IF ~input.ok THEN "badFields"
                   ELSE IF ~parsed.success THEN "invalid"
                   ELSE "provider",
       email |-> parsed.email, password |-> parsed.password,
       logged |-> IF ~input.ok THEN {}
                  ELSE IF ~parsed.success
                  THEN (IF endpoint = "register" THEN {} ELSE {input.email})
                  ELSE {parsed.email}]

(***************************************************************************)
(* Session cookies: getCookieOptions, the two cookies.set calls of a       *)
(* session and the two cookies.delete calls of logout, applied to the      *)
(* cookies the client holds                                                *)
(***************************************************************************)
AccessTokenCookie == "sb-access-token"
RefreshTokenCookie == "sb-refresh-token"

\* opaque token strings, one of them with characters a cookie value escapes
Tokens == {AccessToken, RefreshToken, "tok en;=%2B"}
Sessions == [access_token : Tokens, refresh_token : Tokens]
NoSession == [access_token |-> "", refresh_token |-> ""]

getCookieOptions(isProduction) ==
  [httpOnly |-> TRUE,
   secure |-> isProduction,
   sameSite |-> "lax",
   path |-> "/",
   maxAge |-> 60 * 60 * 24 * 7]

\* cookies.set, cookies.delete and cookies.get(name)?.value on the cookies held
CookiesSet(cookies, name, value, options) ==
  (name :> [value |-> value, options |-> options]) @@ cookies
CookiesDelete(cookies, name) ==
  [n \in DOMAIN cookies \ {name} |-> cookies[n]]
CookiesGet(cookies, name) ==
  IF name \in DOMAIN cookies
  THEN [found |-> TRUE, value |-> cookies[name].value]
  ELSE [found |-> FALSE, value |-> ""]

\* the cookie step of register and login
WriteSessionCookies_swapped(cookies, session, isProduction) ==
  LET cookieOptions == getCookieOptions(isProduction) IN
  CookiesSet(CookiesSet(cookies, AccessTokenCookie, session.refresh_token,
                        cookieOptions),
             RefreshTokenCookie, session.access_token, cookieOptions)
WriteSessionCookies(cookies, session, isProduction) ==
  LET cookieOptions == getCookieOptions(isProduction) IN
  CookiesSet(CookiesSet(cookies, AccessTokenCookie, session.access_token,
                        cookieOptions),
             RefreshTokenCookie, session.refresh_token, cookieOptions)

\* the cookie step of logout
ClearSessionCookies(cookies) ==
  CookiesDelete(CookiesDelete(cookies, AccessTokenCookie), RefreshTokenCookie)

\* the cookies.delete calls a handler made, applied to the cookies held
ApplyDeletes(cookies, calls) ==
  [n \in DOMAIN cookies
         \ {calls[i].name : i \in {j \in DOMAIN calls : calls[j].op = "delete"}}
     |-> cookies[n]]

\* the whole logout handler run on one request
LogoutRun(store, req, result, t) ==
  LET sec == validateAndSecureRequest(store, req, "LOGOUT", t)
      run == AfterSecurityCheck(NewRun(req), sec)
  IN  IF run.pc = "provider" THEN LogoutAfterSignOut(run, result) ELSE run

NoJar ==
  [cookies |-> << >>, op |-> "none", session |-> NoSession,
   isProduction |-> FALSE, status |-> 0, clears |-> 0, logouts |-> 0]

(***************************************************************************)
(* One user's way from register to a guarded route: the profile row that   *)
(* register writes is the row the profiles query of getUserState finds     *)
(***************************************************************************)
NoRow == "<no row>"
RegisteredRole == "Authenticated Free User"

\* the register handler from the answer of signUp to its response
RegisterRun(endpoint, result, answer) ==
  LET req == CHOOSE r \in Requests :
               r.endpoint = endpoint /\ validateRequest(r).isValid
      r0  == [NewRun(req) EXCEPT !.pc = "provider"]
      r1  == RegisterAfterSignUp(r0, result)
  IN  IF r1.pc = "profile" THEN RegisterAfterProfile(r1, answer) ELSE r1

\* the row in profiles once the handler has returned: the one inserted, if the
\* handler inserted one and the insert succeeded
RowWritten(run) ==
  IF (\E i \in DOMAIN run.calls : run.calls[i] = "insertProfile")
       /\ run.profile = "ok"
  THEN RegisteredRole ELSE NoRow

\* select("role").eq("id", user.id).single() on that user's rows: the row, or
\* for no row an error or an answer with neither data nor error
LookupOfRow(row) ==
  IF row = NoRow
  THEN { [kind |-> "data", error |-> TRUE,  row |-> FALSE, role |-> NullRole],
         [kind |-> "data", error |-> FALSE, row |-> FALSE, role |-> NullRole] }
  ELSE { [kind |-> "data", error |-> FALSE, row |-> TRUE, role |-> row] }

NoAccount ==
  [stage |-> "none", endpoint |-> "", status |-> 0, codes |-> << >>,
   cookies |-> FALSE, row |-> NoRow]

(***************************************************************************)
(* The client's auth-state store: the module variables inited, subscribers *)
(* and sub, the refs user and session, the calls of init that are awaiting *)
(* getSession and getUser, and the onAuthStateChange subscriptions the     *)
(* identity provider's client holds (typeof window is "object": the store  *)
(* runs in the browser)                                                    *)
(***************************************************************************)
NoSub == 0

ClientSessions == {"<null>", "session"}

ClientUsers == {"<null>", "user"}

SessionUser(sess) == IF sess = "<null>" THEN "<null>" ELSE "session.user"

NoStore ==
  [inited |-> FALSE, subscribers |-> 0, sub |-> NoSub, awaiting |-> 0,
   created |-> 0, live |-> {}, session |-> "<null>", user |-> "<null>"]

\* if (inited || typeof window === 'undefined') return; inited = true; await
InitStart(st) ==
  IF st.inited THEN st
  ELSE [st EXCEPT !.inited = TRUE, !.awaiting = @ + 1]

\* the rest of init once Promise.all has resolved with s.session and u.user
InitResume(st, sess, usr) ==
  [st EXCEPT !.awaiting = @ - 1,
             !.session = sess,
             !.user = IF usr # "<null>" THEN usr ELSE SessionUser(sess),
             !.created = @ + 1,
             !.live = @ \cup {st.created + 1},
             !.sub = st.created + 1]

\* Promise.all rejected: init throws at the await and nothing after it runs
InitReject(st) == [st EXCEPT !.awaiting = @ - 1]

\* sub?.unsubscribe()
Unsubscribe(st) == st.live \ {st.sub}

\* the onUnmounted callback of one consumer
OnUnmounted(st) ==
  IF st.subscribers - 1 = 0
    THEN [st EXCEPT !.subscribers = 0, !.live = Unsubscribe(st),
                    !.sub = NoSub, !.inited = FALSE]
    ELSE [st EXCEPT !.subscribers = @ - 1]

\* the callback given to onAuthStateChange
OnAuthStateChange(st, sess) ==
  [st EXCEPT !.session = sess, !.user = SessionUser(sess)]

(***************************************************************************)
(* State machine                                                           *)
(***************************************************************************)
Init ==
  /\ now = 0
  /\ rateLimitStore = << >>
  /\ checkResult = NoCheck
  /\ attempts = [k \in Keys |-> NoWindow]
  /\ cur = NoRequest
  /\ guard = NoGuard
  /\ handoff = NoHandoff
  /\ jar = NoJar
  /\ account = NoAccount
  /\ authStore = NoStore

\* time passes
Tick ==
  /\ now + ClockStep <= MaxNow
  /\ now' = now + ClockStep
  /\ attempts' = AttemptsAt(attempts, now')
  /\ UNCHANGED <<rateLimitStore, checkResult, cur, guard, handoff, jar, account, authStore>>

\* the periodic cleanup
Sweep ==
  /\ rateLimitStore' = SweepStore(rateLimitStore, now)
  /\ UNCHANGED <<now, checkResult, attempts, cur, guard, handoff, jar, account, authStore>>

\* a caller runs checkRateLimit(type, identifier)
Check(type, identifier) ==
  /\ WithinBounds(rateLimitStore, type, identifier, now)
  /\ rateLimitStore' = checkRateLimit(rateLimitStore, type, identifier, now).store
  /\ checkResult' = CheckRecord(rateLimitStore, attempts, type, identifier, now)
  /\ attempts' = CountLimited(AttemptsAfterCall(attempts, type, identifier, now),
                              type, identifier,
                              checkRateLimit(rateLimitStore, type, identifier, now).isLimited)
  /\ UNCHANGED <<now, cur, guard, handoff, jar, account, authStore>>

\* a request arrives and its handler runs up to its first wait
StartRequest(req) ==
  LET type   == RateLimitTypeOf(req.endpoint)
      id     == getClientIP(req)
      key    == getRateLimitKey(type, id)
      sec    == validateAndSecureRequest(rateLimitStore, req, type, now)
      called == Includes(sec.calls, <<"checkRateLimit">>)
  IN  /\ cur.pc = "idle"
      /\ CountBelowCap(rateLimitStore, type, id, now)
      /\ rateLimitStore' = sec.store
      /\ cur' = AfterSecurityCheck(
                  [NewRun(req) EXCEPT !.counted = (sec.store # rateLimitStore),
                                      !.overLimit = OverLimit(attempts, type, id)],
                  sec)
      /\ checkResult' = IF called
                        THEN CheckRecord(rateLimitStore, attempts, type, id, now)
                        ELSE checkResult
      /\ attempts' = IF called
                     THEN CountLimited(AttemptsAfterCall(attempts, type, id, now),
                                       type, id, sec.status = 429)
                     ELSE attempts
      /\ UNCHANGED <<now, guard, handoff, jar, account, authStore>>

\* the body arrives and is parsed and validated
ParseValidate(body) ==
  /\ cur.pc = "parse"
  /\ cur' = CASE cur.req.endpoint = "register"     -> RegisterJsonParse(cur, body)
              [] cur.req.endpoint = "registerForm" -> RegisterFormParse(cur, body)
              [] cur.req.endpoint = "login"        -> LoginParse(cur, body)
  /\ UNCHANGED <<now, rateLimitStore, checkResult, attempts, guard, handoff, jar, account, authStore>>

\* the identity provider answers signUp, signInWithPassword or signOut
IdentityCall(result) ==
  /\ cur.pc = "provider"
  /\ cur' = CASE cur.req.endpoint \in {"register", "registerForm"} ->
                   RegisterAfterSignUp(cur, result)
              [] cur.req.endpoint = "login"  -> LoginAfterSignIn(cur, result)
              [] cur.req.endpoint = "logout" -> LogoutAfterSignOut(cur, result)
  /\ UNCHANGED <<now, rateLimitStore, checkResult, attempts, guard, handoff, jar, account, authStore>>

\* the profile store answers the insert
ProfileInsert(answer) ==
  /\ cur.pc = "profile"
  /\ cur' = RegisterAfterProfile(cur, answer)
  /\ UNCHANGED <<now, rateLimitStore, checkResult, attempts, guard, handoff, jar, account, authStore>>

\* the response has left; the next request can be taken
Finish ==
  /\ cur.pc = "done"
  /\ cur' = NoRequest
  /\ UNCHANGED <<now, rateLimitStore, checkResult, attempts, guard, handoff, jar, account, authStore>>

\* applyRateLimit builds the 429 response of a limited call: the clock is read
\* again, after whatever time has passed since checkRateLimit read it
RateLimitResponse ==
  /\ checkResult.called
  /\ ~checkResult.thrown
  /\ checkResult.isLimited
  /\ ~checkResult.headers.sent
  /\ checkResult' = [checkResult EXCEPT !.headers =
                       RateLimitHeaders(checkResult.type,
                                        checkResult.remainingAttempts,
                                        checkResult.resetTime, now)]
  /\ UNCHANGED <<now, rateLimitStore, attempts, cur, guard, handoff, jar, account, authStore>>

NextRateLimiter ==
  \/ Tick
  \/ Sweep
  \/ RateLimitResponse
  \/ \E type \in RateLimitTypes, identifier \in Identifiers : Check(type, identifier)

SpecRateLimiter == Init /\ [][NextRateLimiter]_vars

Next ==
  \/ Tick
  \/ Sweep
  \/ \E req \in Requests : StartRequest(req)
  \/ \E body \in Bodies : ParseValidate(body)
  \/ \E result \in ProviderResults : IdentityCall(result)
  \/ \E answer \in ProfileResults : ProfileInsert(answer)
  \/ Finish

Spec == Init /\ [][Next]_vars

\* a protected route is requested: the wrapper calls getUserState
GuardStart(allowedStates) ==
  /\ guard.pc = "idle"
  /\ guard' = NewGuard(allowedStates)
  /\ UNCHANGED <<now, rateLimitStore, checkResult, attempts, cur, handoff, jar, account, authStore>>

\* supabase.auth.getSession() answers
GetSession(res) ==
  /\ guard.pc = "session"
  /\ guard' = AfterGetSession(guard, res)
  /\ UNCHANGED <<now, rateLimitStore, checkResult, attempts, cur, handoff, jar, account, authStore>>

\* the profiles query answers
ProfileLookup(res) ==
  /\ guard.pc = "profile"
  /\ guard' = AfterLookup(guard, res)
  /\ UNCHANGED <<now, rateLimitStore, checkResult, attempts, cur, handoff, jar, account, authStore>>

\* the wrapped handler returns its response, which the wrapper returns
HandlerReturns(response) ==
  /\ guard.pc = "handler"
  /\ guard' = [guard EXCEPT !.pc = "done", !.response = response]
  /\ UNCHANGED <<now, rateLimitStore, checkResult, attempts, cur, handoff, jar, account, authStore>>

GuardFinish ==
  /\ guard.pc = "done"
  /\ guard' = NoGuard
  /\ UNCHANGED <<now, rateLimitStore, checkResult, attempts, cur, handoff, jar, account, authStore>>

NextGuard ==
  \/ \E allowedStates \in SUBSET UserStates : GuardStart(allowedStates)
  \/ \E res \in SessionResults : GetSession(res)
  \/ \E res \in LookupResults : ProfileLookup(res)
  \/ \E response \in HandlerResponses : HandlerReturns(response)
  \/ GuardFinish

SpecGuard == Init /\ [][NextGuard]_vars

\* credentials are submitted to register or login
Submit(endpoint, syntax, emailRaw, passwordRaw, choice) ==
  /\ handoff' = Credentials(endpoint, syntax, emailRaw, passwordRaw,
                            IF passwordRaw = NoString THEN NoString
                            ELSE ConfirmOf(passwordRaw, choice))
  /\ UNCHANGED <<now, rateLimitStore, checkResult, attempts, cur, guard, jar, account, authStore>>

NextCredentials ==
  \E sub \in Submissions, emailRaw \in RawEmails, passwordRaw \in RawPasswords,
     choice \in ConfirmChoices :
    Submit(sub[1], sub[2], emailRaw, passwordRaw, choice)

SpecCredentials == Init /\ [][NextCredentials]_vars

\* register or login received a session and sets the two cookies
WriteSession(session, isProduction) ==
  /\ jar' = [jar EXCEPT !.cookies = WriteSessionCookies(@, session, isProduction),
                        !.op = "write",
                        !.session = session,
                        !.isProduction = isProduction,
                        !.status = 302,
                        !.clears = 0]
  /\ UNCHANGED <<now, rateLimitStore, checkResult, attempts, cur, guard, handoff, account, authStore>>

\* the two cookies.delete calls
ClearSession ==
  /\ jar.clears < MaxRepeats
  /\ jar' = [jar EXCEPT !.cookies = ClearSessionCookies(@),
                        !.op = "clear",
                        !.clears = @ + 1]
  /\ UNCHANGED <<now, rateLimitStore, checkResult, attempts, cur, guard, handoff, account, authStore>>

\* one request to the logout endpoint, handled from start to response; the
\* store is left as it was because the check for LOGOUT writes nothing
LogoutRequest(req, result) ==
  LET run == LogoutRun(rateLimitStore, req, result, now) IN
  /\ req.endpoint = "logout"
  /\ jar.logouts < MaxRepeats
  /\ jar' = [jar EXCEPT !.cookies = ApplyDeletes(@, run.cookies),
                        !.op = "logout",
                        !.status = run.status,
                        !.clears = 0,
                        !.logouts = @ + 1]
  /\ UNCHANGED <<now, rateLimitStore, checkResult, attempts, cur, guard, handoff, account, authStore>>

NextCookies ==
  \/ \E session \in Sessions, isProduction \in BOOLEAN :
       WriteSession(session, isProduction)
  \/ ClearSession
  \/ \E req \in Requests, result \in ProviderResults : LogoutRequest(req, result)

SpecCookies == Init /\ [][NextCookies]_vars

\* a register request of the user, from the provider's answer to the response
RegisterUser(endpoint, result, answer) ==
  LET run == RegisterRun(endpoint, result, answer) IN
  /\ account.stage # "registered"
  /\ guard.pc = "idle"
  /\ account' = [stage |-> IF run.status = 302 /\ run.redirect = "/"
                           THEN "registered" ELSE "failed",
                 endpoint |-> endpoint,
                 status |-> run.status,
                 codes |-> [i \in 1..Len(run.logs) |-> run.logs[i].code],
                 cookies |-> run.cookies # << >>,
                 row |-> RowWritten(run)]
  /\ UNCHANGED <<now, rateLimitStore, checkResult, attempts, cur, guard, handoff, jar, authStore>>

\* the registered user calls a guarded route
GuardRegistered(allowedStates) ==
  /\ account.stage = "registered"
  /\ GuardStart(allowedStates)

\* getSession answers with the valid session of the registered user
GetUserSession ==
  /\ account.stage = "registered"
  /\ GetSession([kind |-> "data", session |-> TRUE, user |-> TRUE])

\* the profiles query answers from the rows register has written
LookupRegistered(res) ==
  /\ account.stage = "registered"
  /\ res \in LookupOfRow(account.row)
  /\ ProfileLookup(res)

NextAccount ==
  \/ \E endpoint \in {"register", "registerForm"}, result \in ProviderResults,
        answer \in ProfileResults : RegisterUser(endpoint, result, answer)
  \/ \E allowedStates \in SUBSET UserStates : GuardRegistered(allowedStates)
  \/ GetUserSession
  \/ \E res \in LookupOfRow(NoRow) \cup LookupOfRow(RegisteredRole) :
       LookupRegistered(res)
  \/ \E response \in HandlerResponses : HandlerReturns(response)
  \/ GuardFinish

SpecAccount == Init /\ [][NextAccount]_vars

\* ---- the client's auth-state store ----
StoreUnchanged ==
  UNCHANGED <<now, rateLimitStore, checkResult, attempts, cur, guard, handoff,
              jar, account>>

\* a component calls useAuthState(): subscribers++; init() up to its await
Mount ==
  /\ authStore.subscribers < MaxConsumers
  /\ authStore.inited \/
       authStore.awaiting + authStore.created < MaxSubscriptions
  /\ authStore' = InitStart([authStore EXCEPT !.subscribers = @ + 1])
  /\ StoreUnchanged

\* a component that called useAuthState() unmounts
Unmount ==
  /\ authStore.subscribers > 0
  /\ authStore' = OnUnmounted(authStore)
  /\ StoreUnchanged

\* getSession and getUser have answered: an awaiting init goes on
InitCompletes(sess, usr) ==
  /\ authStore.awaiting > 0
  /\ authStore' = InitResume(authStore, sess, usr)
  /\ StoreUnchanged

\* getSession or getUser has rejected: an awaiting init ends
InitFails ==
  /\ authStore.awaiting > 0
  /\ authStore' = InitReject(authStore)
  /\ StoreUnchanged

\* the provider's client reports an auth event to a live subscription
AuthStateChange(sess) ==
  /\ authStore.live # {}
  /\ authStore' = OnAuthStateChange(authStore, sess)
  /\ StoreUnchanged

NextStore ==
  \/ Mount
  \/ Unmount
  \/ \E sess \in ClientSessions, usr \in ClientUsers : InitCompletes(sess, usr)
  \/ InitFails
  \/ \E sess \in ClientSessions : AuthStateChange(sess)

SpecStore == Init /\ [][NextStore]_vars

(***************************************************************************)
(* Properties                                                              *)
(***************************************************************************)
Codes(logs) == [i \in 1..Len(logs) |-> logs[i].code]
Count(seq, x) == Cardinality({i \in 1..Len(seq) : seq[i] = x})
IsRegister(run) == run.pc # "idle" /\ run.req.endpoint \in {"register", "registerForm"}
IsLogin(run) == run.pc # "idle" /\ run.req.endpoint = "login"
IsLogout(run) == run.pc # "idle" /\ run.req.endpoint = "logout"
Answered(run) == Count(run.calls, "signUp") + Count(run.calls, "signInWithPassword")
                   + Count(run.calls, "signOut") > 0

\* C1: for every operation type with a configured limit and every identifier,
\* the n-th call of check within one window returns isLimited=true exactly
\* when n > maxAttempts: the first maxAttempts calls pass and the next one is
\* limited.
C1_LimitedAfterMaxAttempts ==
  (checkResult.called /\ checkResult.type \in DOMAIN RATE_LIMITS) =>
    /\ ~checkResult.thrown
    /\ checkResult.isLimited =
         (checkResult.nth > RATE_LIMITS[checkResult.type].maxAttempts)

C1_Witness ==
  /\ checkResult.called
  /\ checkResult.type = "LOGIN"
  /\ checkResult.nth = RATE_LIMITS["LOGIN"].maxAttempts + 1
  /\ checkResult.isLimited

\* C2: a check that finds an entry whose resetTime has passed replaces it by
\* count=1, resetTime=now+windowMs and returns isLimited=false with
\* remaining=max-1, whatever the count was.
C2_ExpiredEntryReplaced ==
  (checkResult.called /\ checkResult.prevExpired
     /\ checkResult.type \in DOMAIN RATE_LIMITS) =>
    /\ ~checkResult.thrown
    /\ checkResult.count = 1
    /\ checkResult.resetTime
         = checkResult.at + RATE_LIMITS[checkResult.type].windowMs
    /\ ~checkResult.isLimited
    /\ checkResult.remainingAttempts
         = RATE_LIMITS[checkResult.type].maxAttempts - 1

C2_Witness ==
  /\ checkResult.called
  /\ checkResult.prevExpired
  /\ checkResult.type \in DOMAIN RATE_LIMITS
  /\ checkResult.prevCount > RATE_LIMITS[checkResult.type].maxAttempts
  /\ checkResult.count = 1

\* C3: checkRateLimit never throws, for any of the four operation types; the
\* check made by the logout endpoint returns a result.
C3_CheckNeverThrows ==
  checkResult.called => ~checkResult.thrown

\* C4: a logout request that got past the security check without a 429 deletes
\* both cookies and redirects to "/", whatever signOut did; a failed signOut
\* is logged as 4008 and then 1003.
C4_LogoutAlwaysClears ==
  (IsLogout(cur) /\ cur.pc = "done" /\ validateRequest(cur.req).isValid
     /\ cur.status # 429) =>
    /\ cur.cookies = ClearedCookies
    /\ cur.redirect = "/"
    /\ (cur.result.rejects \/ cur.result.hasError) => Codes(cur.logs) = <<4008, 1003>>

\* C5: a logout POST without body and without Content-Type header, from a
\* client under its limit, is never answered 400: both cookies are cleared and
\* the response redirects to "/".
C5_LogoutNeedsNoBody ==
  (IsLogout(cur) /\ cur.pc = "done" /\ cur.req.contentType = << >>
     /\ cur.req.contentLength = "absent" /\ isValidUserAgent(cur.req.userAgent)
     /\ ~cur.overLimit) =>
    /\ cur.status # 400
    /\ cur.cookies = ClearedCookies
    /\ cur.redirect = "/"

\* C6: register and login write cookies only when the provider returned no
\* error, a user and a session: a request answered 400, 401, 429 or 500, and a
\* register request without session, has written no cookie.
C6_CookiesOnlyWithSession ==
  (IsRegister(cur) \/ IsLogin(cur)) =>
    /\ cur.cookies # << >> =>
         /\ Answered(cur)
         /\ ~cur.result.rejects /\ ~cur.result.hasError
         /\ cur.result.user /\ cur.result.session
         /\ cur.status \in {0, 302}
    /\ cur.status \in {400, 401, 429, 500} => cur.cookies = << >>
    /\ (IsRegister(cur) /\ cur.pc = "done" /\ ~cur.result.session) =>
         cur.cookies = << >>

C6_Witness ==
  /\ IsRegister(cur) /\ cur.pc = "done"
  /\ Answered(cur) /\ cur.result.user /\ ~cur.result.session
  /\ cur.status = 302
  /\ cur.cookies = << >>

\* what C7 promises of a register request whose signUp returned a user
RegisterSucceeded(run) ==
  /\ run.redirect = "/"
  /\ Cardinality({i \in 1..Len(run.logs) : run.logs[i].code \in 1000..1099}) = 1
  /\ IF run.result.session
     THEN Codes(run.logs) = <<1001>> /\ run.cookies = SessionCookies
     ELSE Codes(run.logs) = <<1004>> /\ run.cookies = << >>

SignUpReturnedUser(run) ==
  /\ IsRegister(run) /\ run.pc = "done" /\ Count(run.calls, "signUp") = 1
  /\ ~run.result.rejects /\ ~run.result.hasError /\ run.result.user

\* C7 as claimed: whenever signUp returns a user without error, register
\* redirects to "/" and emits exactly one success log, 1001 with both cookies
\* or 1004 with none.
C7_Claimed ==
  SignUpReturnedUser(cur) => RegisterSucceeded(cur)

\* C7 as amended: whenever signUp returns a user without error and the profile
\* insert, where the handler makes one, succeeds, register redirects to "/" and
\* emits exactly one success log, 1001 with both cookies or 1004 with none.
C7_RegisterSuccessLog ==
  (SignUpReturnedUser(cur) /\ cur.profile \in {"none", "ok"}) =>
    RegisterSucceeded(cur)

C7_Witness ==
  /\ SignUpReturnedUser(cur)
  /\ cur.profile = "ok"
  /\ ~cur.result.session
  /\ Codes(cur.logs) = <<1004>>
  /\ cur.cookies = << >>
  /\ cur.redirect = "/"

LoginFailedWithError(run) ==
  /\ IsLogin(run) /\ run.pc = "done" /\ Count(run.calls, "signInWithPassword") > 0
  /\ ~run.result.rejects /\ run.result.hasError

\* C8: login sorts a provider error into one bucket by its message: containing
\* "Invalid login credentials" gives 401 "Invalid email or password." and log
\* 4005; otherwise containing "Email not confirmed" gives 401 with another
\* message and log 4004; anything else gives 500 and log 4008. No cookie is set
\* and the provider is called once.
C8_LoginErrorBuckets ==
  LoginFailedWithError(cur) =>
    /\ cur.cookies = << >>
    /\ Count(cur.calls, "signInWithPassword") = 1
    /\ IF Includes(cur.result.message, InvalidCredentials)
       THEN /\ cur.status = 401
            /\ cur.message = <<"Invalid email or password.">>
            /\ Codes(cur.logs) = <<4005>>
       ELSE IF Includes(cur.result.message, EmailNotConfirmed)
       THEN /\ cur.status = 401
            /\ cur.message # <<"Invalid email or password.">>
            /\ Codes(cur.logs) = <<4004>>
       ELSE /\ cur.status = 500
            /\ cur.message = <<"Could not sign in user.">>
            /\ Codes(cur.logs) = <<4008>>

C8_Witness ==
  /\ LoginFailedWithError(cur)
  /\ Includes(cur.result.message, InvalidCredentials)
  /\ Includes(cur.result.message, EmailNotConfirmed)
  /\ cur.status = 401
  /\ Codes(cur.logs) = <<4005>>

\* the log entries login and register emit for a provider error
ProviderErrorLogs ==
  { LogEntry(4005, "Login authentication failed", TRUE),
    LogEntry(4004, "Login failed - email not confirmed", TRUE),
    LogEntry(4008, "Supabase authentication error", TRUE),
    LogEntry(4001, "Supabase sign up failed", TRUE) }

ReturnedWithoutError(run) ==
  /\ run.pc = "done" /\ Answered(run)
  /\ ~run.result.rejects /\ ~run.result.hasError

\* C9: a provider success that lacks a field is a failure of its own: in login,
\* no user gives 500 "Could not sign in user." and a user without session gives
\* 500 "Could not create user session." with log 4006; in login and register
\* the entry logged for a missing user differs from every entry logged for a
\* provider error.
C9_MissingFieldsDistinct ==
  /\ (IsLogin(cur) /\ ReturnedWithoutError(cur) /\ ~cur.result.user) =>
       /\ cur.status = 500
       /\ cur.message = <<"Could not sign in user.">>
  /\ (IsLogin(cur) /\ ReturnedWithoutError(cur) /\ cur.result.user
        /\ ~cur.result.session) =>
       /\ cur.status = 500
       /\ cur.message = <<"Could not create user session.">>
       /\ Codes(cur.logs) = <<4006>>
  /\ ((IsLogin(cur) \/ IsRegister(cur)) /\ ReturnedWithoutError(cur)
        /\ ~cur.result.user) =>
       /\ Len(cur.logs) = 1
       /\ cur.logs[1] \notin ProviderErrorLogs
  /\ ((IsLogin(cur) \/ IsRegister(cur)) /\ cur.pc = "done" /\ Answered(cur)
        /\ ~cur.result.rejects /\ cur.result.hasError) =>
       /\ Len(cur.logs) = 1
       /\ cur.logs[1] \in ProviderErrorLogs

C9_Witness ==
  /\ IsLogin(cur) /\ ReturnedWithoutError(cur)
  /\ ~cur.result.user
  /\ cur.status = 500
  /\ cur.logs = <<LogEntry(4008, "Supabase returned no user data after sign in", FALSE)>>

\* C10 as claimed: in register and login the rate-limit check is the first
\* step: every request has been counted, also one failing the shape check, and
\* a client over its limit is answered 429 whatever the shape of its request.
C10_Claimed ==
  (IsRegister(cur) \/ IsLogin(cur)) =>
    /\ cur.calls[1] = "checkRateLimit"
    /\ cur.counted
    /\ cur.overLimit => cur.status = 429

\* C10 as amended: in register and login the request-shape check is the first
\* step and precedes the rate-limit check: a request failing the shape check is
\* answered 400 without being counted, a request passing it is counted, and a
\* client over its limit is answered 429 when its request passes the shape
\* check.
C10_ShapeCheckFirst ==
  (IsRegister(cur) \/ IsLogin(cur)) =>
    /\ cur.calls[1] = "validateRequest"
    /\ ~validateRequest(cur.req).isValid =>
         /\ cur.status = 400
         /\ ~cur.counted
         /\ ~Includes(cur.calls, <<"checkRateLimit">>)
    /\ validateRequest(cur.req).isValid =>
         /\ cur.calls[2] = "checkRateLimit"
         /\ cur.counted
         /\ cur.overLimit => cur.status = 429

C10_Witness ==
  /\ IsLogin(cur) /\ cur.pc = "done"
  /\ cur.overLimit
  /\ ~validateRequest(cur.req).isValid
  /\ cur.status = 400
  /\ ~cur.counted

\* the request was turned away by the shape check or by the rate limit
Rejected(run) ==
  /\ run.pc # "idle"
  /\ \/ ~validateRequest(run.req).isValid
     \/ run.overLimit

\* C11: a request rejected at the shape check or the rate check is answered
\* with that response (400 with the shape error, 429 with the rate limit
\* message), logs 3001 and runs no later step: no body parsing, no validation,
\* no provider call, no cookie written; and a request answered 400 has made no
\* provider call.
C11_EarlyExit ==
  /\ Rejected(cur) =>
       /\ cur.pc = "done"
       /\ Codes(cur.logs) = <<3001>>
       /\ IF validateRequest(cur.req).isValid
          THEN /\ cur.status = 429
               /\ cur.message = <<"Rate limit exceeded. Please try again later.">>
               /\ cur.calls = <<"validateRequest", "checkRateLimit">>
          ELSE /\ cur.status = 400
               /\ cur.message = <<validateRequest(cur.req).error>>
               /\ cur.calls = <<"validateRequest">>
       /\ cur.cookies = << >>
       /\ cur.redirect = ""
  /\ (cur.pc # "idle" /\ cur.status = 400) =>
       /\ ~Answered(cur)
       /\ Count(cur.calls, "insertProfile") = 0
       /\ cur.cookies = << >>

C11_Witness ==
  /\ IsLogin(cur) /\ cur.pc = "done"
  /\ cur.overLimit /\ validateRequest(cur.req).isValid
  /\ cur.status = 429
  /\ Codes(cur.logs) = <<3001>>
  /\ cur.calls = <<"validateRequest", "checkRateLimit">>

\* the body could not be read or parsed by the call the handler makes
BodyReadFailed(run) ==
  /\ Count(run.calls, "parseBody") = 1
  /\ IF run.req.endpoint = "register"
        \/ (run.req.endpoint = "login" /\ Includes(run.req.contentType, <<JsonType>>))
     THEN ~requestJson(run.body).ok
     ELSE ~requestFormData(run.req, run.body).ok

\* checkRateLimit threw inside the security check of this request
SecurityCheckThrew(run) ==
  /\ Includes(run.calls, <<"checkRateLimit">>)
  /\ checkResult.called /\ checkResult.thrown

ProviderThrew(run) ==
  \/ Answered(run) /\ run.result.rejects
  \/ run.profile = "rejects"

GenericMessages ==
  { <<"An unexpected error occurred. Please try again.">>,
    <<"An unexpected error occurred during logout. Please try again.">> }

CaughtAsUnexpected(run) ==
  /\ run.status = 500
  /\ run.message \in GenericMessages
  /\ Len(run.logs) > 0 /\ run.logs[Len(run.logs)].code = 5002
  /\ run.cookies = << >>
  /\ run.redirect = ""

\* a finished request carries one response: the redirect or an error
OneResponse(run) ==
  \/ run.status = 302 /\ run.redirect = "/" /\ run.message = << >>
  \/ run.status \in {400, 401, 429, 500} /\ run.redirect = "" /\ run.message # << >>

StatusesOf(run) ==
  IF run.req.endpoint = "login" THEN {302, 400, 401, 429, 500}
  ELSE IF run.req.endpoint = "logout" THEN {302, 400, 500}
  ELSE {302, 400, 429, 500}

Resolved(g, state, user, session) ==
  /\ g.resolved /\ ~g.thrown
  /\ g.state = state /\ g.user = user /\ g.session = session

Admitted(g) ==
  /\ g.resolved /\ ~g.thrown
  /\ g.user /\ g.session /\ g.state \in g.allowedStates

\* C13: the wrapper invokes the handler if and only if the resolver returned a
\* user, a session and a state among allowedStates; then the handler is called
\* once and its response is returned as it is; otherwise the handler is never
\* invoked and the response is the 403 "Forbidden: Access denied." with reason
\* INSUFFICIENT_PERMISSIONS.
C13_GuardAdmitsOrForbids ==
  /\ (guard.handlerCalls > 0) <=> (guard.pc \in {"handler", "done"} /\ Admitted(guard))
  /\ guard.pc = "done" =>
       IF Admitted(guard)
       THEN guard.handlerCalls = 1 /\ guard.response \in HandlerResponses
       ELSE /\ guard.handlerCalls = 0
            /\ guard.response = createErrorResponse(403, "Forbidden: Access denied.",
                                                    "INSUFFICIENT_PERMISSIONS")

\* the wrapper denied a request whose resolver returned
Denied(g) ==
  /\ g.pc = "done" /\ g.resolved /\ ~Admitted(g)

\* C14: the denial does not depend on its cause: whether there was no session,
\* the profile lookup failed or the state is not among allowedStates, the 403
\* response has the same status, body fields and headers.
C14_DenialSameForAllCauses ==
  /\ Denied(guard) =>
       guard.response = createErrorResponse(403, "Forbidden: Access denied.",
                                            "INSUFFICIENT_PERMISSIONS")
  /\ (guard.pc = "done" /\ guard.response.status = 403) =>
       guard.response = createErrorResponse(403, "Forbidden: Access denied.",
                                            "INSUFFICIENT_PERMISSIONS")

C14_Witness ==
  /\ Denied(guard)
  /\ ~guard.user
  /\ guard.sessionResult.kind = "data" /\ ~guard.sessionResult.session
  /\ "ANONYMOUS" \in guard.allowedStates
  /\ guard.response.status = 403
  /\ guard.response.message = "INSUFFICIENT_PERMISSIONS"

\* C15: resolve never throws, and every failure resolves to ANONYMOUS with
\* user and session null: a lookup error (log 4007), an absent row (log 4002),
\* and a getSession or lookup call that rejects or answers without data.
C15_ResolveNeverThrows ==
  (guard.pc \in {"handler", "done"}) =>
    /\ ~guard.thrown
    /\ (guard.lookupResult.kind = "data" /\ guard.lookupResult.error) =>
         Resolved(guard, "ANONYMOUS", FALSE, FALSE) /\ Codes(guard.logs) = <<4007>>
    /\ (guard.lookupResult.kind = "data" /\ ~guard.lookupResult.error
          /\ ~guard.lookupResult.row) =>
         Resolved(guard, "ANONYMOUS", FALSE, FALSE) /\ Codes(guard.logs) = <<4002>>
    /\ (guard.sessionResult.kind \in {"rejects", "noData"}
          \/ guard.lookupResult.kind \in {"rejects", "noData"}) =>
         Resolved(guard, "ANONYMOUS", FALSE, FALSE)

\* C16: when getSession answers without session, or with a session that has
\* no user, resolve returns ANONYMOUS with user and session null, makes no
\* profile lookup and logs nothing.
C16_NoSessionNoLookup ==
  (guard.sessionResult.kind = "data"
     /\ ~(guard.sessionResult.session /\ guard.sessionResult.user)) =>
    /\ Resolved(guard, "ANONYMOUS", FALSE, FALSE)
    /\ guard.calls = <<"getSession">>
    /\ guard.lookupResult = NoLookupResult
    /\ guard.logs = << >>

C16_Witness ==
  /\ guard.pc = "done"
  /\ guard.sessionResult.kind = "data"
  /\ guard.sessionResult.session /\ ~guard.sessionResult.user
  /\ Resolved(guard, "ANONYMOUS", FALSE, FALSE)
  /\ guard.calls = <<"getSession">>

\* C17: with a session and a profile row, role "premium" gives PREMIUM_USER,
\* "license" gives LICENSE_USER and every other role, also the empty, an
\* unknown and a null one, gives FREE_USER; a row never gives ANONYMOUS.
C17_RoleMappingTotal ==
  (guard.lookupResult.kind = "data" /\ ~guard.lookupResult.error
     /\ guard.lookupResult.row) =>
    /\ guard.resolved /\ ~guard.thrown
    /\ guard.user /\ guard.session
    /\ guard.state # "ANONYMOUS"
    /\ guard.lookupResult.role = "premium" => guard.state = "PREMIUM_USER"
    /\ guard.lookupResult.role = "license" => guard.state = "LICENSE_USER"
    /\ guard.lookupResult.role \notin {"premium", "license"} =>
         guard.state = "FREE_USER"

C17_Witness ==
  /\ guard.lookupResult.kind = "data" /\ guard.lookupResult.row
  /\ ~guard.lookupResult.error
  /\ guard.lookupResult.role = NullRole
  /\ Resolved(guard, "FREE_USER", TRUE, TRUE)

\* the body was read and holds a valid email and a rule-compliant password
ValidRegistrationFields(run) ==
  /\ IsRegister(run) /\ Count(run.calls, "validate") = 1
  /\ ~BodyReadFailed(run)
  /\ run.body.email = "valid" /\ run.body.password = "strong"

\* C18: a registration with a valid email and a rule-compliant password but
\* no confirmPassword passes validation and reaches signUp; a confirmPassword
\* that differs from the password is answered 400.
C18_ConfirmPasswordOptional ==
  ValidRegistrationFields(cur) =>
    /\ cur.body.confirmPassword = "absent" =>
         (cur.pc = "provider" \/ Answered(cur)) /\ cur.status # 400
    /\ cur.body.confirmPassword = "mismatch" =>
         cur.status = 400 /\ ~Answered(cur)

\* a well-formed request that declares a JSON body
WellFormedJsonRequest(run) ==
  /\ run.pc # "idle"
  /\ run.req.endpoint \in {"register", "login"}
  /\ run.req.contentType = <<JsonType>>
  /\ run.req.contentLength = "absent"
  /\ isValidUserAgent(run.req.userAgent)
  /\ ~run.overLimit

\* C19: a well-formed register or login request with Content-Type
\* application/json, from a client under its limit, passes the shape check,
\* and with valid credentials in its JSON body reaches the provider call.
C19_JsonAccepted ==
  WellFormedJsonRequest(cur) =>
    /\ Includes(cur.calls, <<"checkRateLimit">>)
    /\ ~(cur.status = 400 /\ cur.calls = <<"validateRequest">>)
    /\ (cur.pc = "done" /\ cur.body.readable /\ cur.body.syntax = "json"
          /\ cur.body.email = "valid" /\ cur.body.password = "strong"
          /\ cur.body.confirmPassword = "match") => Answered(cur)

\* C20: the password handed to the provider is the password string of the
\* request, untrimmed, not normalized, in its own case, for form and JSON
\* bodies and for register and login; the email is handed over trimmed,
\* NFC-normalized and lowercased; no log context holds the password.
C20_PasswordUntouched ==
  handoff.called =>
    /\ handoff.outcome = "provider" =>
         /\ handoff.password = handoff.rawPassword
         /\ handoff.email = toLowerCase(normalize(trim(handoff.rawEmail)))
    /\ handoff.rawPassword \notin handoff.logged
    /\ handoff.password \notin handoff.logged

C20_Witness ==
  /\ handoff.called /\ handoff.outcome = "provider"
  /\ handoff.endpoint = "registerForm"
  /\ handoff.rawPassword = <<Space>> \o CorePassword
  /\ handoff.password = <<Space>> \o CorePassword
  /\ handoff.rawEmail = <<Space, "User", "@", "example.com", Space>>
  /\ handoff.email = <<"user", "@", "example.com">>


\* C21: for every call of check that returns, remainingAttempts is
\* max(0, maxAttempts - n), n the number of calls made for the key in the
\* current window including this one: maxAttempts-1 on the first call of a
\* window, never negative, not above what the previous call of the window
\* returned, and 0 on every call that returns isLimited=true.
C21_RemainingAttempts ==
  (checkResult.called /\ ~checkResult.thrown) =>
    LET max  == RATE_LIMITS[checkResult.type].maxAttempts
        left(n) == IF max - n > 0 THEN max - n ELSE 0
    IN  /\ checkResult.remainingAttempts = left(checkResult.nth)
        /\ checkResult.remainingAttempts >= 0
        /\ checkResult.nth = 1 => checkResult.remainingAttempts = max - 1
        /\ checkResult.nth > 1 =>
             checkResult.remainingAttempts <= left(checkResult.nth - 1)
        /\ checkResult.isLimited => checkResult.remainingAttempts = 0

C21_Witness ==
  /\ checkResult.called
  /\ ~checkResult.thrown
  /\ checkResult.nth = RATE_LIMITS[checkResult.type].maxAttempts + 2
  /\ checkResult.isLimited
  /\ checkResult.remainingAttempts = 0

\* C22: the resetTime of a key is fixed when its window opens (the time of
\* the opening call plus windowMs): every later call of the window, limited
\* or not, returns and stores that same resetTime, and the first call made
\* after it opens a new window and returns isLimited=false however many
\* calls were made while limited.
C22_ResetTimeFixed ==
  /\ (checkResult.called /\ ~checkResult.thrown) =>
       /\ checkResult.resetTime = checkResult.windowEnd
       /\ checkResult.nth = 1 =>
            /\ ~checkResult.isLimited
            /\ checkResult.resetTime
                 = checkResult.at + RATE_LIMITS[checkResult.type].windowMs
       /\ checkResult.nth > 1 => checkResult.at <= checkResult.resetTime
       /\ (checkResult.hadEntry /\ checkResult.prevExpired) =>
            checkResult.nth = 1
  /\ \A k \in DOMAIN rateLimitStore :
       attempts[k].n > 0 => rateLimitStore[k].resetTime = attempts[k].end

C22_Witness ==
  /\ checkResult.called
  /\ ~checkResult.thrown
  /\ checkResult.prevExpired
  /\ checkResult.prevCount = RATE_LIMITS[checkResult.type].maxAttempts + 2
  /\ ~checkResult.isLimited
  /\ checkResult.resetTime = checkResult.at + RATE_LIMITS[checkResult.type].windowMs

\* C26: no update of a counter is lost, whatever the order in which the
\* tasks' calls of check run: after N calls for one key inside one window the
\* stored count is N and exactly max(0, N - maxAttempts) of them returned
\* isLimited=true.
C26_NoLostUpdate ==
  \A type \in DOMAIN RATE_LIMITS : \A identifier \in Identifiers :
    LET key == <<type, identifier>>
        N   == attempts[key].n
        max == RATE_LIMITS[type].maxAttempts
    IN  N > 0 =>
          /\ key \in DOMAIN rateLimitStore
          /\ rateLimitStore[key].count = N
          /\ attempts[key].limited = IF N - max > 0 THEN N - max ELSE 0

C26_Witness ==
  \E type \in DOMAIN RATE_LIMITS : \E identifier \in Identifiers :
    LET key == <<type, identifier>> IN
    /\ attempts[key].n = RATE_LIMITS[type].maxAttempts + 2
    /\ attempts[key].limited = 2
    /\ key \in DOMAIN rateLimitStore
    /\ rateLimitStore[key].count = RATE_LIMITS[type].maxAttempts + 2

C28_SweepDeletesExpired ==
  [][(rateLimitStore' # rateLimitStore /\ checkResult' = checkResult
        /\ now' = now /\ cur' = cur) =>
       /\ DOMAIN rateLimitStore' \subseteq DOMAIN rateLimitStore
       /\ \A k \in DOMAIN rateLimitStore :
            IF now > rateLimitStore[k].resetTime
            THEN k \notin DOMAIN rateLimitStore'
            ELSE /\ k \in DOMAIN rateLimitStore'
                 /\ rateLimitStore'[k] = rateLimitStore[k]]_vars

C28_Witness ==
  /\ checkResult.called
  /\ ~checkResult.thrown
  /\ checkResult.isLimited
  /\ now > checkResult.resetTime
  /\ <<checkResult.type, checkResult.identifier>> \notin DOMAIN rateLimitStore

\* C29: a sweep changes no result of check: in every reachable state a check
\* of any key returns the same isLimited, remainingAttempts and resetTime on
\* the store and on the swept store and leaves the same open windows, and
\* every result returned is the one fixed by the calls and the clock alone.
C29_SweepTransparent ==
  /\ \A type \in RateLimitTypes : \A identifier \in Identifiers :
       LET plain == checkRateLimit(rateLimitStore, type, identifier, now)
           swept == checkRateLimit(SweepStore(rateLimitStore, now),
                                   type, identifier, now)
       IN  /\ plain.thrown = swept.thrown
           /\ plain.isLimited = swept.isLimited
           /\ plain.remainingAttempts = swept.remainingAttempts
           /\ plain.resetTime = swept.resetTime
           /\ SweepStore(plain.store, now) = SweepStore(swept.store, now)
  /\ (checkResult.called /\ ~checkResult.thrown) =>
       /\ checkResult.isLimited
            = (checkResult.nth > RATE_LIMITS[checkResult.type].maxAttempts)
       /\ checkResult.resetTime = checkResult.windowEnd

C29_Witness ==
  \E type \in DOMAIN RATE_LIMITS : \E identifier \in Identifiers :
    LET key == <<type, identifier>> IN
    /\ key \in DOMAIN rateLimitStore
    /\ now > rateLimitStore[key].resetTime
    /\ rateLimitStore[key].count > RATE_LIMITS[type].maxAttempts
    /\ key \notin DOMAIN SweepStore(rateLimitStore, now)
    /\ ~checkRateLimit(SweepStore(rateLimitStore, now),
                       type, identifier, now).isLimited

\* C30: within one window isLimited is monotone per key: a call made in a
\* window in which an earlier call already returned isLimited=true, at a
\* time not after the window's resetTime, returns isLimited=true.
C30_LimitedMonotone ==
  (checkResult.called /\ ~checkResult.thrown
     /\ checkResult.nth > 1 /\ checkResult.limitedBefore > 0) =>
    /\ checkResult.isLimited
    /\ checkResult.at <= checkResult.resetTime

C30_Witness ==
  /\ checkResult.called
  /\ ~checkResult.thrown
  /\ checkResult.limitedBefore = 1
  /\ checkResult.nth = RATE_LIMITS[checkResult.type].maxAttempts + 2
  /\ checkResult.isLimited

\* a finished register or login request whose identity provider or profile
\* store returned an error
ProviderReturnedError(run) ==
  /\ run.pc = "done"
  /\ IsRegister(run) \/ IsLogin(run)
  /\ \/ Answered(run) /\ ~run.result.rejects /\ run.result.hasError
     \/ run.profile = "error"

\* the answer fixed by the endpoint, the failing call and, for login, the
\* bucket of the error message
ProviderErrorAnswer(endpoint, profileFailed, bucket) ==
  IF profileFailed THEN <<500, <<"Could not create user profile.">> >>
  ELSE IF endpoint # "login" THEN <<500, <<"Could not sign up user.">> >>
  ELSE IF bucket = "credentials" THEN <<401, <<"Invalid email or password.">> >>
  ELSE IF bucket = "unconfirmed"
  THEN <<401, <<"Please verify your email address before signing in.">> >>
  ELSE <<500, <<"Could not sign in user.">> >>

\* C23: for every error returned by the identity provider or the profile
\* store in register and login, status and message of the response are fixed
\* by the endpoint, the failing call and the three-way login classification
\* of the error text; nothing else of the error reaches the response, and the
\* entry logged carries the error.
C23_ProviderErrorOpaque ==
  ProviderReturnedError(cur) =>
    /\ <<cur.status, cur.message>>
         = ProviderErrorAnswer(
             cur.req.endpoint, cur.profile = "error",
             IF Includes(cur.result.message, InvalidCredentials) THEN "credentials"
             ELSE IF Includes(cur.result.message, EmailNotConfirmed)
             THEN "unconfirmed" ELSE "other")
    /\ Len(cur.logs) = 1
    /\ cur.logs[1].error
    /\ cur.cookies = << >>

C23_Witness ==
  /\ ProviderReturnedError(cur)
  /\ IsLogin(cur)
  /\ cur.result.message = <<"Database", "connection", "failed">>
  /\ cur.status = 500
  /\ cur.message = <<"Could not sign in user.">>
  /\ cur.logs = <<LogEntry(4008, "Supabase authentication error", TRUE)>>

C25_ClearIdempotent ==
  /\ jar.op = "clear" =>
       /\ jar.cookies = << >>
       /\ ClearSessionCookies(jar.cookies) = jar.cookies
  /\ (jar.op = "logout" /\ jar.status # 400) =>
       /\ jar.cookies = << >>
       /\ jar.status = 302

\* C31: every 429 response carries X-RateLimit-Limit equal to the type's
\* maxAttempts, X-RateLimit-Remaining 0 and a Retry-After that is a whole
\* number of seconds, not negative and not above the window length.
C31_RetryAfterInRange ==
  checkResult.headers.sent =>
    /\ checkResult.headers.limit = RATE_LIMITS[checkResult.type].maxAttempts
    /\ checkResult.headers.remaining = 0
    /\ checkResult.headers.retryAfter >= 0
    /\ checkResult.headers.retryAfter * 1000
         <= RATE_LIMITS[checkResult.type].windowMs

\* C32: every login request that passes the request-shape check takes one
\* attempt of the client's LOGIN quota whatever becomes of it: at every stage
\* of the request, and after its response, the stored count is the number of
\* such requests made in the window, a successful login included, and the
\* request that finds the quota used up is answered 429.
C32_LoginAlwaysCounted ==
  (IsLogin(cur) /\ validateRequest(cur.req).isValid) =>
    LET key == <<"LOGIN", getClientIP(cur.req)>> IN
    /\ cur.counted
    /\ key \in DOMAIN rateLimitStore =>
         \/ now > rateLimitStore[key].resetTime
         \/ rateLimitStore[key].count = attempts[key].n
    /\ cur.overLimit = (cur.status = 429)
    /\ (cur.pc = "done" /\ cur.status = 302 /\ now = checkResult.at
          /\ checkResult.type = "LOGIN") =>
         /\ key \in DOMAIN rateLimitStore
         /\ rateLimitStore[key].count = checkResult.nth

C32_Witness ==
  /\ IsLogin(cur)
  /\ cur.pc = "done"
  /\ cur.status = 429
  /\ checkResult.type = "LOGIN"
  /\ checkResult.nth = RATE_LIMITS["LOGIN"].maxAttempts + 1
  /\ rateLimitStore[<<"LOGIN", getClientIP(cur.req)>>].count
       = RATE_LIMITS["LOGIN"].maxAttempts + 1

\* C33: log code 3001 (rate limit exceeded) is emitted by register, login
\* and logout only for requests answered 429; a request rejected with 400 by
\* the size / user-agent / content-type check is not logged with 3001.
C33_RateLimitLogOnly429 ==
  (cur.pc # "idle" /\ Count(Codes(cur.logs), 3001) > 0) => cur.status = 429

\* C34: a logout request blocked by the security check leaves the session
\* untouched: the response is the one the security check built, signOut is
\* not called, no cookie is deleted and no redirect is issued.
C34_BlockedLogoutUntouched ==
  (IsLogout(cur) /\ cur.status \in {400, 429}) =>
    LET sec == validateAndSecureRequest(<< >>, cur.req, "LOGOUT", now) IN
    /\ cur.pc = "done"
    /\ ~validateRequest(cur.req).isValid
    /\ cur.status = sec.status
    /\ cur.message = sec.message
    /\ cur.calls = <<"validateRequest">>
    /\ Count(cur.calls, "signOut") = 0
    /\ cur.cookies = << >>
    /\ cur.redirect = ""

C34_Witness ==
  /\ IsLogout(cur)
  /\ cur.pc = "done"
  /\ cur.status = 400
  /\ cur.req.userAgent = NoUserAgent
  /\ cur.cookies = << >>
  /\ cur.redirect = ""

\* C35: register separates the two validation stages in its outcome: a body
\* that is malformed or lacks a string email or password gives 400 with log
\* code 2009, and a body with both fields that fails the schema gives 400
\* with message "Invalid credentials" and log code 2001, never 2009.
C35_ValidationStagesDistinct ==
  (IsRegister(cur) /\ Count(cur.calls, "parseBody") > 0) =>
    LET parsed == IF cur.req.endpoint = "register" THEN requestJson(cur.body)
                  ELSE requestFormData(cur.req, cur.body)
    IN  IF ~parsed.ok \/ ~validateFields(parsed.fields)
        THEN /\ cur.status = 400
             /\ Codes(cur.logs) = <<2009>>
        ELSE ~validateRegistrationInput(parsed.fields) =>
               /\ cur.status = 400
               /\ cur.message = <<"Invalid credentials">>
               /\ Codes(cur.logs) = <<2001>>

\* C36: after signUp returns a user, register inserts the profile row before
\* any cookie is written; when the insert fails the request ends with 500
\* "Could not create user profile.", log code 5001, no cookie written and no
\* success log (1001 / 1004).
C36_ProfileBeforeCookies ==
  IsRegister(cur) =>
    /\ (cur.cookies # << >> \/ Count(Codes(cur.logs), 1001) > 0
          \/ Count(Codes(cur.logs), 1004) > 0) =>
         /\ Count(cur.calls, "insertProfile") = 1
         /\ cur.profile = "ok"
    /\ cur.profile = "error" =>
         /\ cur.status = 500
         /\ cur.message = <<"Could not create user profile.">>
         /\ Codes(cur.logs) = <<5001>>
         /\ cur.cookies = << >>

\* C38: every result of getUserState is coherent: the state is ANONYMOUS if
\* and only if user and session are both null, and any other state comes with
\* the user and the session that getSession returned; so the wrapper never
\* invokes the handler for an anonymous caller, also when ANONYMOUS is among
\* the allowed states.
C38_ResolveCoherent ==
  (guard.resolved /\ ~guard.thrown) =>
    /\ (guard.state = "ANONYMOUS") <=> (~guard.user /\ ~guard.session)
    /\ guard.user <=> guard.session
    /\ guard.state # "ANONYMOUS" =>
         /\ guard.sessionResult.session
         /\ guard.sessionResult.user
         /\ guard.lookupResult.row
    /\ guard.state = "ANONYMOUS" =>
         /\ guard.handlerCalls = 0
         /\ guard.pc = "done"
         /\ guard.response.status = 403

C38_Witness ==
  /\ guard.resolved
  /\ ~guard.thrown
  /\ guard.state = "ANONYMOUS"
  /\ "ANONYMOUS" \in guard.allowedStates
  /\ guard.sessionResult.session
  /\ guard.sessionResult.user
  /\ guard.handlerCalls = 0
  /\ guard.response.status = 403

\* C37: every user for whom register returned the success redirect has a
\* profile row, so a later getUserState with a valid session of that user
\* returns FREE_USER, never ANONYMOUS, and a wrapper allowing FREE_USER
\* invokes the handler for that user.
C37_RegisteredIsFreeUser ==
  account.stage = "registered" =>
    /\ account.row # NoRow
    /\ (guard.resolved /\ ~guard.thrown) =>
         /\ guard.state = "FREE_USER"
         /\ "FREE_USER" \in guard.allowedStates => guard.handlerCalls = 1

\* C39: in the client auth-state store, whatever the order of useAuthState
\* mounts, unmounts and completions of init, at most one onAuthStateChange
\* subscription is live, and when no consumer is mounted and no init is
\* awaiting, none is live.
C39_AtMostOneSubscription ==
  /\ Cardinality(authStore.live) <= 1
  /\ (authStore.subscribers = 0 /\ authStore.awaiting = 0) =>
       authStore.live = {}

====
